---- MODULE Spec2Model ----
(***************************************************************************)
(* Connection plane of mcp-cli: the retry executor (client.ts withRetry),  *)
(* the daemon client (daemon-client.ts), the daemon worker's file          *)
(* lifecycle (daemon.ts) and the connection facade (client.ts              *)
(* getConnection).  Times are milliseconds.                                *)
(***************************************************************************)
EXTENDS Integers, Sequences, FiniteSets, TLC

Min(a, b) == IF a <= b THEN a ELSE b
Max(a, b) == IF a >= b THEN a ELSE b

(***************************************************************************)
(* Bounds of the model                                                     *)
(***************************************************************************)
\* MCP_TIMEOUT values tried, in seconds: 1..MaxTimeoutS
MaxTimeoutS == 7
\* MCP_MAX_RETRIES values tried: 0..MaxRetriesEnv
MaxRetriesEnv == 3
\* Math.random() is drawn from the grid {-1, .., 0, .., 1} with JitterRes steps a side
JitterRes == 1
\* a timer may fire late by 0 or by MaxLateS seconds
MaxLateS == 1
\* CLI processes that run at the same time
NumClis == 2
\* daemon processes spawned in all
MaxDaemons == 2
\* runs of each CLI process
MaxRuns == 1
\* edits of the config file
MaxEdits == 1
\* patterns in an allowedTools or disabledTools list
MaxPatterns == 1
\* servers in the config file
MaxServers == 3
\* MCP_CONCURRENCY values tried: 1..MaxPoolEnv (and unset, and 0)
MaxPoolEnv == 2
MaxIdleS == 2
MaxRequests == 2
MaxSweepPids == 2
MaxAuthTimeoutS == 600
MaxListeners == 2
MaxCalls == 3
MaxTools == 2
MaxRefs == 2
MaxLeaves == 2
MaxSendS == 7

(***************************************************************************)
(* Program constants                                                       *)
(***************************************************************************)
DEFAULT_TIMEOUT_SECONDS == 1800
DEFAULT_MAX_RETRIES == 3
DEFAULT_RETRY_DELAY_MS == 1000
DEFAULT_CONCURRENCY == 5
DEFAULT_DAEMON_TIMEOUT_SECONDS == 60
DEFAULT_CALLBACK_PORT == 8095
\* sendRequest: setTimeout(..., 5000)
DAEMON_REQUEST_TIMEOUT_MS == 5000
\* ErrorCode of errors.ts
NETWORK_ERROR == 3
AUTH_ERROR == 4
\* getRetryConfig: "Reserve at least 5s for the final attempt"
RESERVE_MS == 5000
\* getRetryConfig: maxDelayMs: Math.min(10000, ...)
MAX_DELAY_CAP_MS == 10000
\* withRetry: remainingBudget > 1000
MIN_REMAINING_MS == 1000

VARIABLES
    \* ---- retry executor (one withRetry call) ----
    rpc,        \* "idle" | "top" | "running" | "sleeping" | "returned" | "raised"
    rop,        \* the wrapped operation: "connect" | "listTools" | "callTool"
    renv,       \* the environment as parsed: [timeout, retries, delay]; -1: unset or not a number
    rcfg,       \* the RetryConfig of this call
    attempt,    \* the loop variable of withRetry
    calls,      \* how often fn() was invoked
    elapsed,    \* Date.now() - startTime
    lastError,  \* the error of the last failed attempt, or NoError
    delayMs,    \* the backoff delay being slept
    timerLate   \* whether a backoff timer of this call fired late

retryVars == <<rpc, rop, renv, rcfg, attempt, calls, elapsed, lastError, delayMs, timerLate>>

VARIABLES
    \* ---- getConfigHash applied to two server records ----
    hrecA, hrecB,   \* the two records
    hashA, hashB    \* their config hashes

hashVars == <<hrecA, hrecB, hashA, hashB>>

VARIABLES
    \* ---- the config file, the socket directory, daemons and CLI processes ----
    catalogue,  \* the record of the server in the config file
    edits,      \* how often the config file was edited
    pidFile,    \* <server>.pid: NoPidFile or [pid, configHash]
    sockFile,   \* <server>.sock: 0 (absent) or the pid whose listening socket it names
    dpc,        \* daemon pid -> "unborn" | "boot" | "connecting" | "serving" | "closing" | "exited"
    dcfg,       \* daemon pid -> the record it was spawned with
    dready,     \* daemon pid -> whether it printed DAEMON_READY
    cpc,        \* CLI -> position in getConnection and after
    ccfg,       \* CLI -> the record it loaded
    cspawn,     \* CLI -> the pid it spawned in this run, or 0
    ccause,     \* CLI -> why getDaemonConnection returned null in this run, or "none"
    clastOp,    \* CLI -> the outcome of the last facade operation of this run
    cruns,      \* CLI -> finished runs
    misrouted   \* whether a request was served by a daemon started from another record

daemonVars == <<catalogue, edits, pidFile, sockFile, dpc, dcfg, dready,
                cpc, ccfg, cspawn, ccause, clastOp, cruns, misrouted>>

VARIABLES
    \* ---- one call command: getConnection, then callTool on the handle ----
    fpc,        \* "idle" | "getConnection" | "direct" | "connected" | "done"
    frec,       \* allowedTools and disabledTools of the server record
    ftool,      \* the tool name given
    fhandle,    \* "none" | "daemon" | "direct"
    fdaemon,    \* whether a daemon was spawned or contacted in this invocation
    fdirect,    \* whether a direct session was opened in this invocation
    fsent,      \* callTool requests sent to the daemon or the server
    fresult     \* "none" or how the command ended

callVars == <<fpc, frec, ftool, fhandle, fdaemon, fdirect, fsent, fresult>>

VARIABLES
    \* ---- one processWithConcurrency call ----
    ppc,            \* "idle" | "running" | "returned" | "thrown"
    pitems,         \* items: the server names, in input order
    penv,           \* MCP_CONCURRENCY as parsed; -1: unset or not a number
    pout,           \* server name -> how the server behaves in this call
    pworkers,       \* number of workers created
    currentIndex,   \* the shared index (0-based)
    results,        \* results, slot i + 1 for index i
    wpc,            \* worker -> "none" | "await" | "done" | "rejected"
    widx,           \* worker -> the index whose processor it awaits
    pdone           \* the indices in the order their processors settled

poolVars == <<ppc, pitems, penv, pout, pworkers, currentIndex, results, wpc, widx, pdone>>

\* the daemon worker: position, MCP_DAEMON_TIMEOUT, session, exit codes of the
\* cleanups awaiting close, server bound, pid and socket files, DAEMON_READY
\* printed, idle timer (ms left), close scheduled, exit code; history: ms since
\* the last request, requests received, signal seen, idle timer expired,
\* start-up failure
VARIABLES kpc, kenv, ksession, kpending, klisten, kpid, ksock, kready, ktimer,
          kclosing, kexit, ksince, kreqs, ksignalled, kidled, kfailed
\* ids of the requests whose MCP call is in flight on the session, and the last
\* response written to a socket; history: the type of the last request
VARIABLES kinflight, kresp, ktype
workerVars == <<kpc, kenv, ksession, kpending, klisten, kpid, ksock, kready,
                ktimer, kclosing, kexit, ksince, kreqs, ksignalled, kidled,
                kfailed, kinflight, kresp, ktype>>

\* the start-up sweep: position, pid recorded per server's pid file, servers
\* with a socket file, pids of running processes
VARIABLES opc, opids, osocks, oalive
orphanVars == <<opc, opids, osocks, oalive>>

\* one connectToServer call: position, environment, allowInteractiveAuth,
\* grantType, attempt, ms elapsed, listeners bound and browsers opened in all,
\* listener open, tokens saved, last error, result; history: callback failed,
\* authorization demanded, waitForCallback called
VARIABLES apc, aenv, aopt, agrant, aattempt, aelapsed, alisteners, abrowsers,
          alistening, atokens, aerror, aresult, acbfailed, ademanded, awaited
authVars == <<apc, aenv, aopt, agrant, aattempt, aelapsed, alisteners,
              abrowsers, alistening, atokens, aerror, aresult, acbfailed,
              ademanded, awaited>>

\* the client registration: position, oauth config, port of the bound listener,
\* the persisted client record, the value clientInformation returned
VARIABLES cipc, ciconfig, ciactual, cistored, cireturned
clientVars == <<cipc, ciconfig, ciactual, cistored, cireturned>>

\* the callback listener: position, oauth config, free ports, listeners by id,
\* callbackServerState (listener id), callbackServerStarting (call id),
\* actualCallbackPort, startCallbackServerWithFallback calls in flight, the
\* waitForCallback call (position, call awaited, listener awaited), browsers
\* opened, provider calls made, last HTTP response
VARIABLES lpc, lconfig, lfree, lsrv, lstate, lstarting, lactual, lbinding,
          lwait, lwaitTask, lwaitOn, lbrowsers, lcalls, lresp
listenerVars == <<lpc, lconfig, lfree, lsrv, lstate, lstarting, lactual,
                  lbinding, lwait, lwaitTask, lwaitOn, lbrowsers, lcalls,
                  lresp>>

\* a command that lists tools: position, server record, tools the server
\* reports, command, handle used, list obtained
VARIABLES tpc, trec, ttools, tcommand, tvia, tlist
filterVars == <<tpc, trec, ttools, tcommand, tvia, tlist>>

\* config load: position, string values of the config, variables set,
\* strict mode, outcome
VARIABLES epc, etree, eenv, estrict, eresult
envVars == <<epc, etree, eenv, estrict, eresult>>

\* the command run around connectToServer and its exit code
VARIABLES xcommand, xexit
exitVars == <<xcommand, xexit>>

\* one sendRequest: position, request type, seconds the server takes,
\* elements of the request and of the answer in the first read, seconds elapsed, answer
\* written, timer fired, the promise
VARIABLES spc, stype, sdur, sreqfirst, sfirst, sclock, swritten, sfired, spromise
sendVars == <<spc, stype, sdur, sreqfirst, sfirst, sclock, swritten, sfired, spromise>>

vars == <<retryVars, hashVars, daemonVars, callVars, poolVars, workerVars, orphanVars, authVars, clientVars, listenerVars, filterVars, envVars, exitVars, sendVars>>

\* What the actions of one part leave alone
notRetryVars == <<hashVars, daemonVars, callVars, poolVars, workerVars, orphanVars, authVars, clientVars, listenerVars, filterVars, envVars, exitVars, sendVars>>
notHashVars == <<retryVars, daemonVars, callVars, poolVars, workerVars, orphanVars, authVars, clientVars, listenerVars, filterVars, envVars, exitVars, sendVars>>
notDaemonVars == <<retryVars, hashVars, callVars, poolVars, workerVars, orphanVars, authVars, clientVars, listenerVars, filterVars, envVars, exitVars, sendVars>>
notCallVars == <<retryVars, hashVars, daemonVars, poolVars, workerVars, orphanVars, authVars, clientVars, listenerVars, filterVars, envVars, exitVars, sendVars>>
notPoolVars == <<retryVars, hashVars, daemonVars, callVars, workerVars, orphanVars, authVars, clientVars, listenerVars, filterVars, envVars, exitVars, sendVars>>
notWorkerVars == <<retryVars, hashVars, daemonVars, callVars, poolVars, orphanVars, authVars, clientVars, listenerVars, filterVars, envVars, exitVars, sendVars>>
notOrphanVars == <<retryVars, hashVars, daemonVars, callVars, poolVars, workerVars, authVars, clientVars, listenerVars, filterVars, envVars, exitVars, sendVars>>
notAuthVars == <<retryVars, hashVars, daemonVars, callVars, poolVars, workerVars, orphanVars, clientVars, listenerVars, filterVars, envVars, exitVars, sendVars>>
notClientVars == <<retryVars, hashVars, daemonVars, callVars, poolVars, workerVars, orphanVars, authVars, listenerVars, filterVars, envVars, exitVars, sendVars>>
notListenerVars == <<retryVars, hashVars, daemonVars, callVars, poolVars, workerVars, orphanVars, authVars, clientVars, filterVars, envVars, exitVars, sendVars>>
notFilterVars == <<retryVars, hashVars, daemonVars, callVars, poolVars, workerVars, orphanVars, authVars, clientVars, listenerVars, envVars, exitVars, sendVars>>
notEnvVars == <<retryVars, hashVars, daemonVars, callVars, poolVars, workerVars, orphanVars, authVars, clientVars, listenerVars, filterVars, exitVars, sendVars>>
notExitVars == <<retryVars, hashVars, daemonVars, callVars, poolVars, workerVars, orphanVars, authVars, clientVars, listenerVars, filterVars, envVars, sendVars>>
notSendVars == <<retryVars, hashVars, daemonVars, callVars, poolVars, workerVars, orphanVars, authVars, clientVars, listenerVars, filterVars, envVars, exitVars>>

(***************************************************************************)
(* config.ts: environment-driven settings                                  *)
(***************************************************************************)
\* getTimeoutMs: MCP_TIMEOUT in seconds, default 1800 s
getTimeoutMs(env) ==
    IF env.timeout > 0
    THEN env.timeout * 1000
    ELSE DEFAULT_TIMEOUT_SECONDS * 1000

\* getMaxRetries: MCP_MAX_RETRIES, default 3, 0 disables retries
getMaxRetries(env) ==
    IF env.retries >= 0
    THEN env.retries
    ELSE DEFAULT_MAX_RETRIES

\* getRetryDelayMs: MCP_RETRY_DELAY in ms, default 1000
getRetryDelayMs(env) ==
    IF env.delay > 0
    THEN env.delay
    ELSE DEFAULT_RETRY_DELAY_MS

(***************************************************************************)
(* client.ts: retry executor                                               *)
(***************************************************************************)
\* getRetryConfig with one retry too many (a plausible off-by-one)
getRetryConfigExtra(env) ==
    LET totalBudgetMs == getTimeoutMs(env)
        retryBudgetMs == Max(0, totalBudgetMs - RESERVE_MS)
    IN  [maxRetries    |-> getMaxRetries(env) + 1,
         baseDelayMs   |-> getRetryDelayMs(env),
         maxDelayMs    |-> Min(MAX_DELAY_CAP_MS, retryBudgetMs \div 2),
         totalBudgetMs |-> totalBudgetMs]

\* getRetryConfig: the reserve only caps maxDelayMs; totalBudgetMs is the full timeout
getRetryConfig(env) ==
    LET totalBudgetMs == getTimeoutMs(env)
        retryBudgetMs == Max(0, totalBudgetMs - RESERVE_MS)
    IN  [maxRetries    |-> getMaxRetries(env),
         baseDelayMs   |-> getRetryDelayMs(env),
         maxDelayMs    |-> Min(MAX_DELAY_CAP_MS, retryBudgetMs \div 2),
         totalBudgetMs |-> totalBudgetMs]

NoError == [code |-> "", msg |-> "none"]

TransientCodes ==
    {"ECONNREFUSED", "ECONNRESET", "ETIMEDOUT", "ENOTFOUND",
     "EPIPE", "ENETUNREACH", "EHOSTUNREACH", "EAI_AGAIN"}

\* The message shapes the regular expressions of isTransientError accept
TransientMessages ==
    {"502 Bad Gateway", "HTTP 503", "status code 504", "network error",
     "connection reset", "timeout"}

\* isTransientError: the error code first, then the message
isTransientError(e) ==
    \/ (e.code # "" /\ e.code \in TransientCodes)
    \/ e.msg \in TransientMessages

\* The errors an attempt may fail with
Errors ==
    {[code |-> "ECONNRESET", msg |-> "read ECONNRESET"],
     [code |-> "",           msg |-> "timeout"],
     [code |-> "EACCES",     msg |-> "permission denied"],
     [code |-> "",           msg |-> "MCP error -32602: invalid params"]}

RECURSIVE Pow2(_)
Pow2(n) == IF n = 0 THEN 1 ELSE 2 * Pow2(n - 1)

\* Math.round of the non-negative rational num/den
Round(num, den) == (2 * num + den) \div (2 * den)

\* calculateDelay with Math.random() * 2 - 1 = j / JitterRes
calculateDelay(att, config, j) ==
    LET exponentialDelay == config.baseDelayMs * Pow2(att)
        cappedDelay == Min(exponentialDelay, config.maxDelayMs)
    IN  Round(cappedDelay * (4 * JitterRes + j), 4 * JitterRes)

\* withRetry: shouldRetry, without the budget condition
shouldRetryNoBudget(att, config, err, remainingBudget) ==
    /\ att < config.maxRetries
    /\ isTransientError(err)

\* withRetry: shouldRetry
shouldRetry(att, config, err, remainingBudget) ==
    /\ att < config.maxRetries
    /\ isTransientError(err)
    /\ remainingBudget > MIN_REMAINING_MS

\* The time one attempt may take: whole seconds; callTool passes
\* {timeout: getTimeoutMs()} to the SDK, the other operations are given the same range
AttemptDurations(env) == {1000 * k : k \in 0..(getTimeoutMs(env) \div 1000)}

EnvChoices ==
    [timeout : {-1} \cup 1..MaxTimeoutS,
     retries : {-1} \cup 0..MaxRetriesEnv,
     delay   : {-1}]

\* The environments the model runs withRetry under: the default timeout of
\* 30 min is kept out of the time grid
RunEnvs == {e \in EnvChoices : e.timeout > 0}

RetryInit ==
    /\ rpc = "idle"
    /\ rop = "none"
    /\ renv = [timeout |-> -1, retries |-> -1, delay |-> -1]
    /\ rcfg = getRetryConfig(renv)
    /\ attempt = 0
    /\ calls = 0
    /\ elapsed = 0
    /\ lastError = NoError
    /\ delayMs = 0
    /\ timerLate = FALSE

\* withRetry is entered: config = getRetryConfig(), startTime = Date.now()
RetryStart ==
    /\ rpc = "idle"
    /\ \E e \in RunEnvs, op \in {"connect", "listTools", "callTool"} :
        /\ renv' = e
        /\ rop' = op
        /\ rcfg' = getRetryConfig(e)
    /\ rpc' = "top"
    /\ attempt' = 0
    /\ calls' = 0
    /\ elapsed' = 0
    /\ lastError' = NoError
    /\ delayMs' = 0
    /\ timerLate' = FALSE
    /\ UNCHANGED notRetryVars

\* The head of the for loop: attempt <= maxRetries, then the budget check, then fn()
RetryLoopTop ==
    /\ rpc = "top"
    /\ IF attempt <= rcfg.maxRetries /\ elapsed < rcfg.totalBudgetMs
       THEN /\ rpc' = "running"
            /\ calls' = calls + 1
       ELSE \* break, or the loop ends: throw lastError
            /\ rpc' = "raised"
            /\ calls' = calls
    /\ UNCHANGED <<rop, renv, rcfg, attempt, elapsed, lastError, delayMs, timerLate>>
    /\ UNCHANGED notRetryVars

\* fn() resolves: withRetry returns its value
RetryAttemptOk ==
    /\ rpc = "running"
    /\ \E d \in AttemptDurations(renv) : elapsed' = elapsed + d
    /\ rpc' = "returned"
    /\ UNCHANGED <<rop, renv, rcfg, attempt, calls, lastError, delayMs, timerLate>>
    /\ UNCHANGED notRetryVars

\* fn() rejects: the catch block of withRetry
RetryAttemptFails ==
    /\ rpc = "running"
    /\ \E d \in AttemptDurations(renv), err \in Errors, j \in (-JitterRes)..JitterRes :
        LET now == elapsed + d
            remainingBudget == rcfg.totalBudgetMs - now
        IN  /\ elapsed' = now
            /\ lastError' = err
            /\ IF shouldRetry(attempt, rcfg, err, remainingBudget)
               THEN /\ delayMs' = Min(calculateDelay(attempt, rcfg, j),
                                      remainingBudget - MIN_REMAINING_MS)
                    /\ rpc' = "sleeping"
               ELSE /\ delayMs' = 0
                    /\ rpc' = "raised"
    /\ UNCHANGED <<rop, renv, rcfg, attempt, calls, timerLate>>
    /\ UNCHANGED notRetryVars

\* await sleep(delay) ends, on time or late; attempt++
RetrySleepDone ==
    /\ rpc = "sleeping"
    /\ \E late \in {0, 1000 * MaxLateS} :
        /\ elapsed' = elapsed + delayMs + late
        /\ timerLate' = (timerLate \/ late > 0)
    /\ attempt' = attempt + 1
    /\ rpc' = "top"
    /\ delayMs' = 0
    /\ UNCHANGED <<rop, renv, rcfg, calls, lastError>>
    /\ UNCHANGED notRetryVars

\* The caller is done with the outcome; the executor is free for the next call
RetryReset ==
    /\ rpc \in {"returned", "raised"}
    /\ rpc' = "idle"
    /\ rop' = "none"
    /\ UNCHANGED <<renv, rcfg, attempt, calls, elapsed, lastError, delayMs, timerLate>>
    /\ UNCHANGED notRetryVars

NextRetry ==
    \/ RetryStart
    \/ RetryLoopTop
    \/ RetryAttemptOk
    \/ RetryAttemptFails
    \/ RetrySleepDone
    \/ RetryReset

(***************************************************************************)
(* Server records as JSON objects.  An object is the sequence of its       *)
(* properties in insertion order; a property is <<key, kind, payload>>,    *)
(* kind "str" (payload <<<<"", s>>>>), "arr" (payload <<<<"", e1>>, ..>>)  *)
(* or "obj" (payload <<<<k1, v1>>, ..>>, a nested object of strings).      *)
(***************************************************************************)
Str(key, s) == <<key, "str", <<<<"", s>>>>>>
Arr(key, elems) == <<key, "arr", [i \in DOMAIN elems |-> <<"", elems[i]>>]>>
Obj(key, pairs) == <<key, "obj", pairs>>

\* Every property name of the records, in the order Array.prototype.sort() gives
\* strings (UTF-16 code units: upper case before lower case)
KeyOrder ==
    <<"Authorization", "TOKEN", "args", "clientId", "command", "env", "headers",
      "oauth", "scope", "url">>

\* Object.keys(config)
ObjectKeys(config) == {config[i][1] : i \in DOMAIN config}

\* Object.keys(config).sort()
SortedKeys(config) == SelectSeq(KeyOrder, LAMBDA k : k \in ObjectKeys(config))

\* The property of an object under a key it has
Property(config, k) == config[CHOOSE i \in DOMAIN config : config[i][1] = k]

\* The pairs of a nested object whose keys are listed, in the order of the list
PickPairs(pairs, list) ==
    LET present == SelectSeq(list, LAMBDA k : \E i \in DOMAIN pairs : pairs[i][1] = k)
    IN  [n \in DOMAIN present |->
            pairs[CHOOSE i \in DOMAIN pairs : pairs[i][1] = present[n]]]

\* JSON.stringify(value, replacer) with an array replacer: at every level of nesting
\* only the properties named in the array are written, in the order of the array;
\* array elements are all written.  The text is modelled by its structure.
JSONstringify(config, replacer) ==
    LET present == SelectSeq(replacer, LAMBDA k : k \in ObjectKeys(config))
    IN  [n \in DOMAIN present |->
            LET prop == Property(config, present[n])
            IN  <<prop[1], prop[2],
                  IF prop[2] = "obj" THEN PickPairs(prop[3], replacer) ELSE prop[3]>>]

\* getConfigHash: sha256 of JSON.stringify(config, Object.keys(config).sort()); the
\* digest is taken to be collision-free, so the hash is the text hashed
getConfigHash(config) == JSONstringify(config, SortedKeys(config))

\* The fields of a record and their values, whatever order the keys were written in
Fields(config) ==
    {<<config[i][1], config[i][2],
       IF config[i][2] = "obj" THEN PickPairs(config[i][3], KeyOrder) ELSE config[i][3]>>
        : i \in DOMAIN config}

\* Two records differ in the value of some field
Differ(r1, r2) == Fields(r1) # Fields(r2)

\* stdio records: command, args, env
StdioRecords ==
    {<<Str("command", "npx"), Arr("args", a)>> : a \in {<<"-y", "srv">>, <<"-y", "srv2">>}}
    \cup
    {<<Str("command", "npx"), Arr("args", a), Obj("env", <<<<"TOKEN", t>>>>)>> :
        a \in {<<"-y", "srv">>, <<"-y", "srv2">>}, t \in {"t1", "t2"}}
    \cup
    \* the same fields written in another order
    {<<Obj("env", <<<<"TOKEN", t>>>>), Arr("args", <<"-y", "srv">>), Str("command", "npx")>> :
        t \in {"t1", "t2"}}

\* http records: url, headers, oauth
HttpRecords ==
    {<<Str("url", "https://mcp.example/x")>>}
    \cup
    {<<Str("url", "https://mcp.example/x"), Obj("headers", <<<<"Authorization", h>>>>)>> :
        h \in {"Bearer a", "Bearer b"}}
    \cup
    {<<Str("url", "https://mcp.example/x"),
       Obj("oauth", <<<<"clientId", c>>, <<"scope", sc>>>>)>> :
        c \in {"id1", "id2"}, sc \in {"read", "write"}}

ServerRecords == StdioRecords \cup HttpRecords

HashInit ==
    /\ hrecA = <<Str("command", "npx"), Arr("args", <<"-y", "srv">>)>>
    /\ hrecB = hrecA
    /\ hashA = getConfigHash(hrecA)
    /\ hashB = getConfigHash(hrecB)

\* Two records are loaded and hashed
HashPair ==
    /\ \E r1 \in ServerRecords, r2 \in ServerRecords :
        /\ hrecA' = r1
        /\ hrecB' = r2
        /\ hashA' = getConfigHash(r1)
        /\ hashB' = getConfigHash(r2)
    /\ UNCHANGED notHashVars

NextHash == HashPair

(***************************************************************************)
(* The socket directory, the daemon worker and the daemon client           *)
(***************************************************************************)
CLIs == 1..NumClis
Pids == 1..MaxDaemons

\* readPidFile returns null
NoPidFile == [pid |-> 0, configHash |-> <<>>]

\* The records the config file holds for the server over time: the second differs
\* from the first in an env value, the third in an argument
Rec0 == <<Str("command", "npx"), Arr("args", <<"-y", "srv">>), Obj("env", <<<<"TOKEN", "t1">>>>)>>
Rec1 == <<Str("command", "npx"), Arr("args", <<"-y", "srv">>), Obj("env", <<<<"TOKEN", "t2">>>>)>>
Rec2 == <<Str("command", "npx"), Arr("args", <<"-y", "srv2">>), Obj("env", <<<<"TOKEN", "t1">>>>)>>
CatalogueRecords == {Rec0, Rec1, Rec2}

\* isProcessRunning: process.kill(pid, 0) does not throw
isProcessRunning(pid) == pid \in Pids /\ dpc[pid] \notin {"unborn", "exited"}

\* The daemon at the socket path accepts and answers requests
Serving(pid) == pid \in Pids /\ dpc[pid] = "serving"

\* killProcess: SIGTERM.  Before runDaemon installs its handlers the process just
\* dies; afterwards the handler runs cleanup() and exits
Signalled(pc) ==
    CASE pc = "boot" -> "exited"
      [] pc \in {"connecting", "serving"} -> "closing"
      [] OTHER -> pc

DaemonInit ==
    /\ catalogue = Rec0
    /\ edits = 0
    /\ pidFile = NoPidFile
    /\ sockFile = 0
    /\ dpc = [d \in Pids |-> "unborn"]
    /\ dcfg = [d \in Pids |-> Rec0]
    /\ dready = [d \in Pids |-> FALSE]
    /\ cpc = [c \in CLIs |-> "idle"]
    /\ ccfg = [c \in CLIs |-> Rec0]
    /\ cspawn = [c \in CLIs |-> 0]
    /\ ccause = [c \in CLIs |-> "none"]
    /\ clastOp = [c \in CLIs |-> "none"]
    /\ cruns = [c \in CLIs |-> 0]
    /\ misrouted = FALSE

\* The user edits the server's record in the config file
EditConfig ==
    /\ edits < MaxEdits
    /\ edits' = edits + 1
    /\ \E r \in CatalogueRecords \ {catalogue} : catalogue' = r
    /\ UNCHANGED <<pidFile, sockFile, dpc, dcfg, dready,
                   cpc, ccfg, cspawn, ccause, clastOp, cruns, misrouted>>
    /\ UNCHANGED notDaemonVars

(***************************************************************************)
(* daemon.ts: runDaemon                                                    *)
(***************************************************************************)
\* Startup up to the first await: removeSocketFile, writePidFile
DaemonBoot(d) ==
    /\ dpc[d] = "boot"
    /\ sockFile' = 0
    /\ pidFile' = [pid |-> d, configHash |-> getConfigHash(dcfg[d])]
    /\ dpc' = [dpc EXCEPT ![d] = "connecting"]
    /\ UNCHANGED <<catalogue, edits, dcfg, dready,
                   cpc, ccfg, cspawn, ccause, clastOp, cruns, misrouted>>
    /\ UNCHANGED notDaemonVars

\* connectToServer resolved, Bun.listen bound the socket path, DAEMON_READY printed
DaemonListen(d) ==
    /\ dpc[d] = "connecting"
    /\ sockFile' = d
    /\ dready' = [dready EXCEPT ![d] = TRUE]
    /\ dpc' = [dpc EXCEPT ![d] = "serving"]
    /\ UNCHANGED <<catalogue, edits, pidFile, dcfg,
                   cpc, ccfg, cspawn, ccause, clastOp, cruns, misrouted>>
    /\ UNCHANGED notDaemonVars

\* connectToServer rejected: cleanup() has no session to close, removes the socket
\* and pid files at once; process.exit(1)
DaemonConnectFails(d) ==
    /\ dpc[d] = "connecting"
    /\ sockFile' = 0
    /\ pidFile' = NoPidFile
    /\ dpc' = [dpc EXCEPT ![d] = "exited"]
    /\ UNCHANGED <<catalogue, edits, dcfg, dready,
                   cpc, ccfg, cspawn, ccause, clastOp, cruns, misrouted>>
    /\ UNCHANGED notDaemonVars

\* connectToServer resolved but Bun.listen threw: cleanup() awaits the session's close
DaemonListenFails(d) ==
    /\ dpc[d] = "connecting"
    /\ dpc' = [dpc EXCEPT ![d] = "closing"]
    /\ UNCHANGED <<catalogue, edits, pidFile, sockFile, dcfg, dready,
                   cpc, ccfg, cspawn, ccause, clastOp, cruns, misrouted>>
    /\ UNCHANGED notDaemonVars

\* The idle timer fires: cleanup() starts and awaits the session's close
DaemonIdleTimeout(d) ==
    /\ dpc[d] = "serving"
    /\ dpc' = [dpc EXCEPT ![d] = "closing"]
    /\ UNCHANGED <<catalogue, edits, pidFile, sockFile, dcfg, dready,
                   cpc, ccfg, cspawn, ccause, clastOp, cruns, misrouted>>
    /\ UNCHANGED notDaemonVars

\* The end of cleanup(): removeSocketFile, removePidFile by path, then process.exit
DaemonCleanupDone(d) ==
    /\ dpc[d] = "closing"
    /\ sockFile' = 0
    /\ pidFile' = NoPidFile
    /\ dpc' = [dpc EXCEPT ![d] = "exited"]
    /\ UNCHANGED <<catalogue, edits, dcfg, dready,
                   cpc, ccfg, cspawn, ccause, clastOp, cruns, misrouted>>
    /\ UNCHANGED notDaemonVars

\* The daemon dies without running cleanup (SIGKILL, a crash): its files stay
DaemonCrash(d) ==
    /\ dpc[d] \in {"connecting", "serving", "closing"}
    /\ dpc' = [dpc EXCEPT ![d] = "exited"]
    /\ UNCHANGED <<catalogue, edits, pidFile, sockFile, dcfg, dready,
                   cpc, ccfg, cspawn, ccause, clastOp, cruns, misrouted>>
    /\ UNCHANGED notDaemonVars

(***************************************************************************)
(* client.ts getConnection and daemon-client.ts getDaemonConnection        *)
(***************************************************************************)
\* A CLI process starts and loads the server's record from the config file
CliStart(c) ==
    /\ cpc[c] = "idle"
    /\ cruns[c] < MaxRuns
    /\ ccfg' = [ccfg EXCEPT ![c] = catalogue]
    /\ cpc' = [cpc EXCEPT ![c] = "sweep"]
    /\ UNCHANGED <<catalogue, edits, pidFile, sockFile, dpc, dcfg, dready,
                   cspawn, ccause, clastOp, cruns, misrouted>>
    /\ UNCHANGED notDaemonVars

\* getConnection: cleanupOrphanedDaemons, then isDaemonEnabled() (MCP_NO_DAEMON)
CliSweep(c) ==
    /\ cpc[c] = "sweep"
    /\ IF pidFile # NoPidFile /\ ~isProcessRunning(pidFile.pid)
       THEN pidFile' = NoPidFile /\ sockFile' = 0
       ELSE UNCHANGED <<pidFile, sockFile>>
    /\ \E enabled \in BOOLEAN :
        cpc' = [cpc EXCEPT ![c] = IF enabled THEN "validate" ELSE "direct"]
    /\ UNCHANGED <<catalogue, edits, dpc, dcfg, dready,
                   ccfg, cspawn, ccause, clastOp, cruns, misrouted>>
    /\ UNCHANGED notDaemonVars

\* isDaemonValid and the branch of getDaemonConnection on it
CliValidate(c) ==
    /\ cpc[c] = "validate"
    /\ IF pidFile = NoPidFile
       THEN \* no PID file: no daemon
            /\ cpc' = [cpc EXCEPT ![c] = "spawn"]
            /\ UNCHANGED <<pidFile, sockFile, dpc>>
       ELSE IF ~isProcessRunning(pidFile.pid)
       THEN \* the process is gone: remove both files
            /\ pidFile' = NoPidFile
            /\ sockFile' = 0
            /\ cpc' = [cpc EXCEPT ![c] = "spawn"]
            /\ UNCHANGED dpc
       ELSE IF pidFile.configHash # getConfigHash(ccfg[c])
       THEN \* config hash mismatch: kill, remove both files
            /\ dpc' = [dpc EXCEPT ![pidFile.pid] = Signalled(@)]
            /\ pidFile' = NoPidFile
            /\ sockFile' = 0
            /\ cpc' = [cpc EXCEPT ![c] = "spawn"]
       ELSE IF sockFile = 0
       THEN \* socket missing: kill, remove the pid file
            /\ dpc' = [dpc EXCEPT ![pidFile.pid] = Signalled(@)]
            /\ pidFile' = NoPidFile
            /\ cpc' = [cpc EXCEPT ![c] = "spawn"]
            /\ UNCHANGED sockFile
       ELSE \* valid
            /\ cpc' = [cpc EXCEPT ![c] = "checkSock"]
            /\ UNCHANGED <<pidFile, sockFile, dpc>>
    /\ UNCHANGED <<catalogue, edits, dcfg, dready,
                   ccfg, cspawn, ccause, clastOp, cruns, misrouted>>
    /\ UNCHANGED notDaemonVars

\* spawnDaemon: Bun.spawn of daemon.ts with the record; the new process gets the
\* next unused pid
CliSpawn(c) ==
    /\ cpc[c] = "spawn"
    /\ \E d \in Pids :
        /\ dpc[d] = "unborn"
        /\ \A e \in Pids : e < d => dpc[e] # "unborn"
        /\ dpc' = [dpc EXCEPT ![d] = "boot"]
        /\ dcfg' = [dcfg EXCEPT ![d] = ccfg[c]]
        /\ cspawn' = [cspawn EXCEPT ![c] = d]
    /\ cpc' = [cpc EXCEPT ![c] = "waitReady"]
    /\ UNCHANGED <<catalogue, edits, pidFile, sockFile, dready,
                   ccfg, ccause, clastOp, cruns, misrouted>>
    /\ UNCHANGED notDaemonVars

\* spawnDaemon: DAEMON_READY is read from the child's stdout; then the 100 ms wait
CliSpawnReady(c) ==
    /\ cpc[c] = "waitReady"
    /\ dready[cspawn[c]]
    /\ cpc' = [cpc EXCEPT ![c] = "checkSock"]
    /\ UNCHANGED <<catalogue, edits, pidFile, sockFile, dpc, dcfg, dready,
                   ccfg, cspawn, ccause, clastOp, cruns, misrouted>>
    /\ UNCHANGED notDaemonVars

\* spawnDaemon: the child exited (or closed stdout) before DAEMON_READY: false, null
CliSpawnExited(c) ==
    /\ cpc[c] = "waitReady"
    /\ ~dready[cspawn[c]]
    /\ dpc[cspawn[c]] = "exited"
    /\ ccause' = [ccause EXCEPT ![c] = "spawnFailed"]
    /\ cpc' = [cpc EXCEPT ![c] = "direct"]
    /\ UNCHANGED <<catalogue, edits, pidFile, sockFile, dpc, dcfg, dready,
                   ccfg, cspawn, clastOp, cruns, misrouted>>
    /\ UNCHANGED notDaemonVars

\* spawnDaemon: the 5 s timer fires first: false, null; the child is left running
CliSpawnTimeout(c) ==
    /\ cpc[c] = "waitReady"
    /\ ~dready[cspawn[c]]
    /\ dpc[cspawn[c]] # "exited"
    /\ ccause' = [ccause EXCEPT ![c] = "spawnTimeout"]
    /\ cpc' = [cpc EXCEPT ![c] = "direct"]
    /\ UNCHANGED <<catalogue, edits, pidFile, sockFile, dpc, dcfg, dready,
                   ccfg, cspawn, clastOp, cruns, misrouted>>
    /\ UNCHANGED notDaemonVars

\* getDaemonConnection: existsSync(socketPath)
CliCheckSock(c) ==
    /\ cpc[c] = "checkSock"
    /\ IF sockFile = 0
       THEN /\ ccause' = [ccause EXCEPT ![c] = "socketMissing"]
            /\ cpc' = [cpc EXCEPT ![c] = "direct"]
       ELSE /\ cpc' = [cpc EXCEPT ![c] = "ping"]
            /\ UNCHANGED ccause
    /\ UNCHANGED <<catalogue, edits, pidFile, sockFile, dpc, dcfg, dready,
                   ccfg, cspawn, clastOp, cruns, misrouted>>
    /\ UNCHANGED notDaemonVars

\* A getDaemonConnection that returns the handle whatever the ping did
afterPingIgnoringFailure(ok) == "connDaemon"

\* getDaemonConnection after the ping: the handle (getConnection wraps it, isDaemon
\* true), or null, on which getConnection falls through to the direct connection
afterPing(ok) == IF ok THEN "connDaemon" ELSE "direct"

\* The ping: sendRequest connects to whatever listens at the socket path; it fails
\* on a connect error, an unparseable answer or the 5 s timeout
CliPing(c) ==
    /\ cpc[c] = "ping"
    /\ \E ok \in BOOLEAN :
        /\ ok => Serving(sockFile)
        /\ cpc' = [cpc EXCEPT ![c] = afterPing(ok)]
        /\ ccause' = [ccause EXCEPT ![c] = IF ok THEN "none" ELSE "pingFailed"]
        /\ misrouted' = (misrouted \/ (ok /\ Differ(dcfg[sockFile], ccfg[c])))
    /\ UNCHANGED <<catalogue, edits, pidFile, sockFile, dpc, dcfg, dready,
                   ccfg, cspawn, clastOp, cruns>>
    /\ UNCHANGED notDaemonVars

\* getConnection: connectToServer; it resolves (isDaemon false) or its error is raised
CliDirectConnect(c) ==
    /\ cpc[c] = "direct"
    /\ \E ok \in BOOLEAN :
        cpc' = [cpc EXCEPT ![c] = IF ok THEN "connDirect" ELSE "connFailed"]
    /\ UNCHANGED <<catalogue, edits, pidFile, sockFile, dpc, dcfg, dready,
                   ccfg, cspawn, ccause, clastOp, cruns, misrouted>>
    /\ UNCHANGED notDaemonVars

\* listTools, callTool or getInstructions on a daemon-backed handle: sendRequest to
\* the socket path; a failure is thrown to the caller
CliDaemonOp(c) ==
    /\ cpc[c] = "connDaemon"
    /\ \E ok \in BOOLEAN :
        /\ ok => Serving(sockFile)
        /\ clastOp' = [clastOp EXCEPT ![c] = IF ok THEN "ok" ELSE "daemonError"]
        /\ misrouted' = (misrouted \/ (ok /\ Differ(dcfg[sockFile], ccfg[c])))
    /\ UNCHANGED <<catalogue, edits, pidFile, sockFile, dpc, dcfg, dready,
                   cpc, ccfg, cspawn, ccause, cruns>>
    /\ UNCHANGED notDaemonVars

\* The same operations on a direct handle
CliDirectOp(c) ==
    /\ cpc[c] = "connDirect"
    /\ \E ok \in BOOLEAN :
        clastOp' = [clastOp EXCEPT ![c] = IF ok THEN "ok" ELSE "serverError"]
    /\ UNCHANGED <<catalogue, edits, pidFile, sockFile, dpc, dcfg, dready,
                   cpc, ccfg, cspawn, ccause, cruns, misrouted>>
    /\ UNCHANGED notDaemonVars

\* The handle is closed, or getConnection raised: the CLI process ends
CliExit(c) ==
    /\ cpc[c] \in {"connDaemon", "connDirect", "connFailed"}
    /\ cpc' = [cpc EXCEPT ![c] = "idle"]
    /\ cspawn' = [cspawn EXCEPT ![c] = 0]
    /\ ccause' = [ccause EXCEPT ![c] = "none"]
    /\ clastOp' = [clastOp EXCEPT ![c] = "none"]
    /\ cruns' = [cruns EXCEPT ![c] = @ + 1]
    /\ UNCHANGED <<catalogue, edits, pidFile, sockFile, dpc, dcfg, dready,
                   ccfg, misrouted>>
    /\ UNCHANGED notDaemonVars

NextDaemon ==
    \/ EditConfig
    \/ \E d \in Pids :
        \/ DaemonBoot(d)
        \/ DaemonListen(d)
        \/ DaemonConnectFails(d)
        \/ DaemonListenFails(d)
        \/ DaemonIdleTimeout(d)
        \/ DaemonCleanupDone(d)
        \/ DaemonCrash(d)
    \/ \E c \in CLIs :
        \/ CliStart(c)
        \/ CliSweep(c)
        \/ CliValidate(c)
        \/ CliSpawn(c)
        \/ CliSpawnReady(c)
        \/ CliSpawnExited(c)
        \/ CliSpawnTimeout(c)
        \/ CliCheckSock(c)
        \/ CliPing(c)
        \/ CliDirectConnect(c)
        \/ CliDaemonOp(c)
        \/ CliDirectOp(c)
        \/ CliExit(c)

(***************************************************************************)
(* Tool filtering (config.ts) and callTool on a connection handle          *)
(***************************************************************************)
\* String.prototype.toLowerCase on the characters used (the regex flag 'i')
toLowerCase(ch) ==
    CASE ch = "D" -> "d"
      [] ch = "F" -> "f"
      [] OTHER -> ch

\* matchesPattern: the glob turned into a regular expression, one token a character:
\* regex specials are escaped (literals), * becomes .* and ? becomes .
regexPattern(pattern) ==
    [i \in DOMAIN pattern |->
        IF pattern[i] = "*" THEN <<"any*">>
        ELSE IF pattern[i] = "?" THEN <<"any1">>
        ELSE <<"lit", pattern[i]>>]

\* new RegExp(`^${regexPattern}$`, 'i').test(name), on the tokens from position i
\* and the name from position j
RECURSIVE RegExpTest(_, _, _, _)
RegExpTest(tokens, i, name, j) ==
    IF i > Len(tokens) THEN j > Len(name)
    ELSE IF tokens[i][1] = "any*"
         THEN \/ RegExpTest(tokens, i + 1, name, j)
              \/ (j <= Len(name) /\ RegExpTest(tokens, i, name, j + 1))
    ELSE IF j > Len(name) THEN FALSE
    ELSE IF tokens[i][1] = "any1" THEN RegExpTest(tokens, i + 1, name, j + 1)
    ELSE /\ toLowerCase(tokens[i][2]) = toLowerCase(name[j])
         /\ RegExpTest(tokens, i + 1, name, j + 1)

matchesPattern(name, pattern) == RegExpTest(regexPattern(pattern), 1, name, 1)

\* matchesAnyPattern: patterns.some(...)
matchesAnyPattern(name, patterns) == \E p \in patterns : matchesPattern(name, p)

\* An isToolAllowed in which allowedTools is looked at first
isToolAllowedAllowFirst(toolName, config) ==
    IF config.allowedTools # {} /\ matchesAnyPattern(toolName, config.allowedTools)
    THEN TRUE
    ELSE ~(config.disabledTools # {} /\ matchesAnyPattern(toolName, config.disabledTools))

\* isToolAllowed: disabledTools takes precedence, then allowedTools if given
isToolAllowed(toolName, config) ==
    IF config.disabledTools # {} /\ matchesAnyPattern(toolName, config.disabledTools)
    THEN FALSE
    ELSE IF config.allowedTools # {}
    THEN matchesAnyPattern(toolName, config.allowedTools)
    ELSE TRUE

\* Tool names, a character a position: delete_file, Delete_file, read_file, d.f
ToolNames == {<<"d", "_", "f">>, <<"D", "_", "f">>, <<"r", "_", "f">>, <<"d", ".", "f">>}

\* Glob patterns of allowedTools and disabledTools
ToolPatterns ==
    {<<"d", "_", "*">>, <<"*">>, <<"r", "_", "f">>, <<"d", "?", "f">>, <<"d", ".", "F">>}

\* The filtering part of a server record: each list absent (empty) or of
\* up to MaxPatterns patterns
FilterLists == {ps \in SUBSET ToolPatterns : Cardinality(ps) <= MaxPatterns}
FilterRecords == [allowedTools : FilterLists, disabledTools : FilterLists]

NoTool == <<>>
NoFilter == [allowedTools |-> {}, disabledTools |-> {}]

CallInit ==
    /\ fpc = "idle"
    /\ frec = NoFilter
    /\ ftool = NoTool
    /\ fhandle = "none"
    /\ fdaemon = FALSE
    /\ fdirect = FALSE
    /\ fsent = 0
    /\ fresult = "none"

\* call <server> <tool>: the record is loaded and getConnection is called for it
callCommand ==
    /\ fpc = "idle"
    /\ \E rec \in FilterRecords, tool \in ToolNames :
        /\ frec' = rec
        /\ ftool' = tool
    /\ fpc' = "getConnection"
    /\ UNCHANGED <<fhandle, fdaemon, fdirect, fsent, fresult>>
    /\ UNCHANGED notCallVars

\* getConnection, daemon part: with the daemon enabled getDaemonConnection spawns a
\* daemon or pings the one it judged valid, and returns a handle or null
getConnectionDaemon ==
    /\ fpc = "getConnection"
    /\ \E enabled \in BOOLEAN, handle \in BOOLEAN :
        /\ handle => enabled
        /\ fdaemon' = enabled
        /\ fhandle' = IF handle THEN "daemon" ELSE "none"
        /\ fpc' = IF handle THEN "connected" ELSE "direct"
    /\ UNCHANGED <<frec, ftool, fdirect, fsent, fresult>>
    /\ UNCHANGED notCallVars

\* getConnection, fallback: connectToServer opens the direct session or throws
getConnectionDirect ==
    /\ fpc = "direct"
    /\ \E ok \in BOOLEAN :
        /\ fdirect' = ok
        /\ fhandle' = IF ok THEN "direct" ELSE "none"
        /\ fresult' = IF ok THEN fresult ELSE "CONNECT_FAILED"
        /\ fpc' = IF ok THEN "connected" ELSE "done"
    /\ UNCHANGED <<frec, ftool, fdaemon, fsent>>
    /\ UNCHANGED notCallVars

\* A handle whose daemon-backed callTool forwards without the check
refusesOnDirectOnly(handle, toolName, config) ==
    handle = "direct" /\ ~isToolAllowed(toolName, config)

\* callTool of either handle: if (!isToolAllowed(toolName, config)) throw
refuses(handle, toolName, config) == ~isToolAllowed(toolName, config)

\* McpConnection.callTool: the refusal, or the request goes to the daemon
\* (daemonConn.callTool) or to the server (callTool(client, ...))
handleCallTool ==
    /\ fpc = "connected"
    /\ IF refuses(fhandle, ftool, frec)
       THEN /\ fresult' = "TOOL_DISABLED"
            /\ UNCHANGED fsent
       ELSE /\ fsent' = fsent + 1
            /\ \E ok \in BOOLEAN : fresult' = IF ok THEN "OK" ELSE "TOOL_EXECUTION_FAILED"
    /\ fpc' = "done"
    /\ UNCHANGED <<frec, ftool, fhandle, fdaemon, fdirect>>
    /\ UNCHANGED notCallVars

\* The command ends; the next invocation starts afresh
callExit ==
    /\ fpc = "done"
    /\ fpc' = "idle"
    /\ frec' = NoFilter
    /\ ftool' = NoTool
    /\ fhandle' = "none"
    /\ fdaemon' = FALSE
    /\ fdirect' = FALSE
    /\ fsent' = 0
    /\ fresult' = "none"
    /\ UNCHANGED notCallVars

NextCall ==
    \/ callCommand
    \/ getConnectionDaemon
    \/ getConnectionDirect
    \/ handleCallTool
    \/ callExit

(***************************************************************************)
(* The fan-out engine: processWithConcurrency over fetchServerTools        *)
(* (commands/list.ts; grep.ts and search.ts carry the same engine)         *)
(***************************************************************************)
\* getConcurrencyLimit: MCP_CONCURRENCY if a positive number, else 5
getConcurrencyLimit(env) == IF env > 0 THEN env ELSE DEFAULT_CONCURRENCY

ServerNames == {"s1", "s2", "s3"}

\* listServerNames(config): the keys of mcpServers in the order of the file
ServerLists ==
    {s \in UNION {[1..n -> ServerNames] : n \in 1..MaxServers} :
        \A i, j \in DOMAIN s : i # j => s[i] # s[j]}

\* How a server behaves in this run: it serves, or one of the three awaited calls of
\* fetchServerTools throws
ServerOutcomes == {"ok", "connectFails", "listToolsFails", "getInstructionsFails"}

\* results[index] before it is written (new Array(items.length))
Empty == [name |-> "", tools |-> <<>>, instructions |-> "", error |-> "empty"]

\* What connection.listTools() resolves to for a server
ToolsOf(serverName) == <<[server |-> serverName, name |-> "tool"]>>

\* The rejection of a processor promise
Rejection(msg) == [name |-> "", tools |-> <<>>, instructions |-> "", error |-> msg,
                   rejected |-> TRUE]

\* A fetchServerTools whose try covers getConnection only
fetchServerToolsConnectOnly(serverName, outcome) ==
    CASE outcome = "ok" ->
            [name |-> serverName, tools |-> ToolsOf(serverName),
             instructions |-> "instructions", error |-> "", rejected |-> FALSE]
      [] outcome = "connectFails" ->
            [name |-> serverName, tools |-> <<>>, instructions |-> "",
             error |-> outcome, rejected |-> FALSE]
      [] OTHER -> Rejection(outcome)

\* fetchServerTools: the record of the server's tools, or, from the catch, the
\* record with no tools and the error's message; the promise never rejects
fetchServerTools(serverName, outcome) ==
    IF outcome = "ok"
    THEN [name |-> serverName, tools |-> ToolsOf(serverName),
          instructions |-> "instructions", error |-> "", rejected |-> FALSE]
    ELSE [name |-> serverName, tools |-> <<>>, instructions |-> "",
          error |-> outcome, rejected |-> FALSE]

\* One worker an item
workerCountPerItem(maxConcurrency, n) == n

\* Array.from({length: Math.min(maxConcurrency, items.length)}, ...)
workerCount(maxConcurrency, n) == Min(maxConcurrency, n)

\* A worker that reads the shared index again after the await
slotAfterAwait(index, shared) == shared - 1

\* results[index] = await processor(...): index is the worker's own const
slot(index, shared) == index

\* A Promise.race of the workers
anySettled(states, n) == \E w \in 1..n : states[w] = "done"

\* await Promise.all(workers): every worker promise is fulfilled
allSettled(states, n) == \A w \in 1..n : states[w] = "done"

Workers == 1..MaxServers

PoolInit ==
    /\ ppc = "idle"
    /\ pitems = <<>>
    /\ penv = -1
    /\ pout = [s \in ServerNames |-> "ok"]
    /\ pworkers = 0
    /\ currentIndex = 0
    /\ results = <<>>
    /\ wpc = [w \in Workers |-> "none"]
    /\ widx = [w \in Workers |-> 0]
    /\ pdone = <<>>

\* processWithConcurrency up to await Promise.all: results allocated, the workers
\* created; each runs to its first await: it takes the next index and calls processor
PoolStart ==
    /\ ppc = "idle"
    /\ \E items \in ServerLists, env \in -1..MaxPoolEnv,
          out \in [ServerNames -> ServerOutcomes] :
        /\ \A s \in ServerNames :
               (\A i \in DOMAIN items : items[i] # s) => out[s] = "ok"
        /\ pitems' = items
        /\ penv' = env
        /\ pout' = out
        /\ results' = [i \in 1..Len(items) |-> Empty]
        /\ LET n == workerCount(getConcurrencyLimit(env), Len(items))
           IN  /\ pworkers' = n
               /\ wpc' = [w \in Workers |->
                            IF w > n THEN "none"
                            ELSE IF w - 1 < Len(items) THEN "await" ELSE "done"]
               /\ widx' = [w \in Workers |->
                            IF w <= n /\ w - 1 < Len(items) THEN w - 1 ELSE 0]
               /\ currentIndex' = Min(n, Len(items))
    /\ ppc' = "running"
    /\ pdone' = <<>>
    /\ UNCHANGED notPoolVars

\* The processor promise a worker awaits settles: the worker stores the value and
\* runs its loop to the next await or to its end; a rejection ends the worker and
\* rejects Promise.all
FetchSettles(w) ==
    /\ wpc[w] = "await"
    /\ LET index == widx[w]
           value == fetchServerTools(pitems[index + 1], pout[pitems[index + 1]])
       IN  IF value.rejected
           THEN /\ wpc' = [wpc EXCEPT ![w] = "rejected"]
                /\ ppc' = IF ppc = "running" THEN "thrown" ELSE ppc
                /\ UNCHANGED <<results, currentIndex, widx, pdone>>
           ELSE /\ results' = [results EXCEPT ![slot(index, currentIndex) + 1] =
                                  [name |-> value.name, tools |-> value.tools,
                                   instructions |-> value.instructions,
                                   error |-> value.error]]
                /\ IF currentIndex < Len(pitems)
                   THEN /\ widx' = [widx EXCEPT ![w] = currentIndex]
                        /\ currentIndex' = currentIndex + 1
                        /\ UNCHANGED wpc
                   ELSE /\ wpc' = [wpc EXCEPT ![w] = "done"]
                        /\ UNCHANGED <<widx, currentIndex>>
                /\ pdone' = Append(pdone, index)
                /\ UNCHANGED ppc
    /\ UNCHANGED <<pitems, penv, pout, pworkers>>
    /\ UNCHANGED notPoolVars

\* await Promise.all(workers) resumes; return results
PoolReturn ==
    /\ ppc = "running"
    /\ allSettled(wpc, pworkers)
    /\ ppc' = "returned"
    /\ UNCHANGED <<pitems, penv, pout, pworkers, currentIndex, results, wpc, widx, pdone>>
    /\ UNCHANGED notPoolVars

\* The command prints and ends
PoolReset ==
    /\ ppc \in {"returned", "thrown"}
    /\ \A w \in Workers : wpc[w] # "await"
    /\ ppc' = "idle"
    /\ pitems' = <<>>
    /\ penv' = -1
    /\ pout' = [s \in ServerNames |-> "ok"]
    /\ pworkers' = 0
    /\ currentIndex' = 0
    /\ results' = <<>>
    /\ wpc' = [w \in Workers |-> "none"]
    /\ widx' = [w \in Workers |-> 0]
    /\ pdone' = <<>>
    /\ UNCHANGED notPoolVars

NextPool ==
    \/ PoolStart
    \/ \E w \in Workers : FetchSettles(w)
    \/ PoolReturn
    \/ PoolReset

(***************************************************************************)
(* The daemon worker (daemon.ts: runDaemon), one process followed from its *)
(* start to its exit, with its idle timer and a clock in steps of TickMs   *)
(***************************************************************************)
\* getDaemonTimeoutMs: MCP_DAEMON_TIMEOUT in seconds when it parses to a
\* positive integer, the default otherwise (env = -1: the variable is unset)
getDaemonTimeoutMs(env) ==
    IF env > 0 THEN env * 1000 ELSE DEFAULT_DAEMON_TIMEOUT_SECONDS * 1000

\* values of MCP_DAEMON_TIMEOUT the worker is started with
DaemonTimeoutEnvs == {-1} \cup (0..MaxIdleS)

\* granularity of the clock
TickMs == 1000

NoTimer == -1
NoExit == -1

\* kinds of request the socket's data handler receives ("bad": invalid JSON)
RequestTypes == {"ping", "listTools", "callTool", "close", "bad"}

\* request types that handleRequest serves by awaiting a call on the session
McpCallTypes == {"listTools", "callTool"}

\* the id of a response to data that did not parse ('unknown')
UnknownId == 0

\* no response written yet
NoResponse == [id |-> -1, success |-> FALSE, data |-> ""]

scheduleCloseNever(closing, type) == closing

\* handleRequest, case 'close': setTimeout(cleanup and exit(0), 100)
scheduleClose(closing, type) == closing \/ type = "close"

\* the DaemonResponse handleRequest returns without awaiting the session
immediateResponse(id, type) ==
    CASE type = "bad" ->
            [id |-> UnknownId, success |-> FALSE, data |-> "INVALID_REQUEST"]
      [] type = "ping" -> [id |-> id, success |-> TRUE, data |-> "pong"]
      [] type = "close" -> [id |-> id, success |-> TRUE, data |-> "closing"]

resetIdleTimerIfUnset(idleTimer, timeoutMs) ==
    IF idleTimer = NoTimer THEN timeoutMs ELSE idleTimer

\* resetIdleTimer: the running timer is cleared and a new one of timeoutMs set
resetIdleTimer(idleTimer, timeoutMs) == timeoutMs

removePidFileSkipped(exists) == exists

\* removePidFile / removeSocketFile: the file does not exist afterwards
removePidFile(exists) == FALSE

removeSocketFile(exists) == FALSE

\* cleanup() up to its await: the idle timer is cleared, and with a session
\* open the call is suspended on mcpClient.close(), its caller's exit code
\* pending
cleanupSuspends(code) ==
    /\ ksession = "open"
    /\ ktimer' = NoTimer
    /\ kpending' = kpending \cup {code}
    /\ UNCHANGED <<kpc, ksession, klisten, kpid, ksock, kexit, kinflight>>

\* cleanup() from its await to process.exit(code) of its caller: session
\* closed, server stopped, both files removed
cleanupCompletes(code) ==
    /\ ktimer' = NoTimer
    /\ kpending' = {}
    /\ kclosing' = FALSE
    /\ ksession' = IF ksession = "open" THEN "closed" ELSE ksession
    /\ klisten' = FALSE
    /\ ksock' = removeSocketFile(ksock)
    /\ kpid' = removePidFile(kpid)
    /\ kexit' = code
    /\ kinflight' = {}
    /\ kpc' = "exited"

WorkerInit ==
    /\ kpc = "start"
    /\ kenv = -1
    /\ ksession = "none"
    /\ kpending = {}
    /\ klisten = FALSE
    /\ kpid = FALSE
    /\ ksock = TRUE
    /\ kready = FALSE
    /\ ktimer = NoTimer
    /\ kclosing = FALSE
    /\ kexit = NoExit
    /\ ksince = 0
    /\ kreqs = 0
    /\ ksignalled = FALSE
    /\ kidled = FALSE
    /\ kfailed = "none"
    /\ kinflight = {}
    /\ kresp = NoResponse
    /\ ktype = ""

\* runDaemon up to its first await: signal handlers installed, a stale socket
\* file removed, the pid file written, connectToServer started
WorkerStart ==
    /\ kpc = "start"
    /\ \E env \in DaemonTimeoutEnvs : kenv' = env
    /\ ksock' = removeSocketFile(ksock)
    /\ kpid' = TRUE
    /\ kpc' = "connecting"
    /\ UNCHANGED <<ksession, kpending, klisten, kready, ktimer, kclosing, kexit,
                   ksince, kreqs, kresp, ktype, ksignalled, kidled, kfailed, kinflight>>
    /\ UNCHANGED notWorkerVars

\* connectToServer rejects: cleanup with no session and no server, exit(1)
WorkerConnectFails ==
    /\ kpc = "connecting"
    /\ kfailed' = "connect"
    /\ cleanupCompletes(1)
    /\ UNCHANGED <<kenv, kready, ksince, kreqs, kresp, ktype, ksignalled, kidled>>
    /\ UNCHANGED notWorkerVars

\* connectToServer resolves, Bun.listen binds the socket, the idle timer is
\* armed and DAEMON_READY printed
WorkerListen ==
    /\ kpc = "connecting"
    /\ ksession' = "open"
    /\ klisten' = TRUE
    /\ ksock' = TRUE
    /\ ktimer' = resetIdleTimer(ktimer, getDaemonTimeoutMs(kenv))
    /\ ksince' = 0
    /\ kready' = TRUE
    /\ kpc' = "running"
    /\ UNCHANGED <<kenv, kpending, kpid, kclosing, kexit, kreqs, kresp, ktype, ksignalled,
                   kidled, kfailed, kinflight>>
    /\ UNCHANGED notWorkerVars

\* connectToServer resolves and Bun.listen throws: the catch block calls
\* cleanup, which awaits mcpClient.close(), exit(1) behind it
WorkerBindFails ==
    /\ kpc = "connecting"
    /\ ksession' = "open"
    /\ kfailed' = "bind"
    /\ kpending' = kpending \cup {1}
    /\ kpc' = "running"
    /\ UNCHANGED <<kenv, klisten, kpid, ksock, kready, ktimer, kclosing, kexit,
                   ksince, kreqs, kresp, ktype, ksignalled, kidled, kinflight>>
    /\ UNCHANGED notWorkerVars

\* SIGTERM or SIGINT is delivered while the process awaits: the handler calls
\* cleanup and then exit(0)
WorkerSignal ==
    /\ kpc \in {"connecting", "running"}
    /\ ksignalled' = TRUE
    /\ IF ksession = "open" THEN cleanupSuspends(0) /\ UNCHANGED kclosing
                            ELSE cleanupCompletes(0)
    /\ UNCHANGED <<kenv, kready, ksince, kreqs, kresp, ktype, kidled, kfailed>>
    /\ UNCHANGED notWorkerVars

\* the data handler of the listening socket: handleRequest re-arms the idle
\* timer first; ping, close and unparseable data are answered at once, a
\* 'close' request scheduling cleanup and exit(0); listTools and callTool
\* start their call on the session and are answered when it settles
WorkerRequest ==
    /\ kpc = "running"
    /\ klisten
    /\ kreqs < MaxRequests
    /\ \E type \in RequestTypes :
          /\ ktype' = type
          /\ kclosing' = scheduleClose(kclosing, type)
          /\ IF type \in McpCallTypes
                THEN kinflight' = kinflight \cup {kreqs + 1} /\ UNCHANGED kresp
                ELSE kresp' = immediateResponse(kreqs + 1, type)
                     /\ UNCHANGED kinflight
    /\ ktimer' = resetIdleTimer(ktimer, getDaemonTimeoutMs(kenv))
    /\ ksince' = 0
    /\ kreqs' = kreqs + 1
    /\ UNCHANGED <<kpc, kenv, ksession, kpending, klisten, kpid, ksock, kready,
                   kexit, ksignalled, kidled, kfailed>>
    /\ UNCHANGED notWorkerVars

\* the call of one request settles on the session: its result, or the
\* EXECUTION_ERROR of the catch block, is written to the socket
WorkerCallSettles ==
    /\ kpc = "running"
    /\ \E id \in kinflight, ok \in BOOLEAN :
          /\ kinflight' = kinflight \ {id}
          /\ kresp' = [id |-> id, success |-> ok,
                       data |-> IF ok THEN "result" ELSE "EXECUTION_ERROR"]
    /\ UNCHANGED <<kpc, kenv, ksession, kpending, klisten, kpid, ksock, kready,
                   ktimer, kclosing, kexit, ksince, kreqs, ksignalled, kidled,
                   kfailed, ktype>>
    /\ UNCHANGED notWorkerVars

\* the timer of a 'close' request fires
WorkerCloseFires ==
    /\ kpc = "running"
    /\ kclosing
    /\ kclosing' = FALSE
    /\ cleanupSuspends(0)
    /\ UNCHANGED <<kenv, kready, ksince, kreqs, kresp, ktype, ksignalled, kidled, kfailed>>
    /\ UNCHANGED notWorkerVars

\* the idle timer expires: cleanup, then exit(0)
WorkerIdleFires ==
    /\ kpc = "running"
    /\ ktimer = 0
    /\ kidled' = TRUE
    /\ cleanupSuspends(0)
    /\ UNCHANGED <<kenv, kready, kclosing, ksince, kreqs, kresp, ktype, ksignalled, kfailed>>
    /\ UNCHANGED notWorkerVars

\* mcpClient.close() settles for one suspended cleanup, which runs to its end;
\* its caller exits the process with its code
WorkerCleanupDone ==
    /\ kpc = "running"
    /\ \E code \in kpending : cleanupCompletes(code)
    /\ UNCHANGED <<kenv, kready, ksince, kreqs, kresp, ktype, ksignalled, kidled, kfailed>>
    /\ UNCHANGED notWorkerVars

\* TickMs of time pass with the idle timer running
WorkerTick ==
    /\ kpc = "running"
    /\ ktimer > 0
    /\ ktimer' = ktimer - TickMs
    /\ ksince' = ksince + TickMs
    /\ UNCHANGED <<kpc, kenv, ksession, kpending, klisten, kpid, ksock, kready,
                   kclosing, kexit, kreqs, kresp, ktype, ksignalled, kidled, kfailed, kinflight>>
    /\ UNCHANGED notWorkerVars

NextWorker ==
    \/ WorkerStart
    \/ WorkerConnectFails
    \/ WorkerListen
    \/ WorkerBindFails
    \/ WorkerSignal
    \/ WorkerRequest
    \/ WorkerCallSettles
    \/ WorkerCloseFires
    \/ WorkerIdleFires
    \/ WorkerCleanupDone
    \/ WorkerTick

(***************************************************************************)
(* The start-up sweep (daemon-client.ts: cleanupOrphanedDaemons) over the  *)
(* socket directory.  A file name is a sequence of pieces, ".pid" being    *)
(* one piece, so that String.replace('.pid', '') is computed as written    *)
(***************************************************************************)
\* server names of the catalogue
SweepNames == {<<"a">>, <<"a", "b">>, <<"a", ".pid">>, <<"a", ".pid", "b">>}

\* pids pid files may record
SweepPids == 1..MaxSweepPids

\* opids[n] for a server without pid file, and with one that does not parse
NoFile == 0
Unparsable == -1

\* getPidPath: <dir>/<serverName>.pid
getPidPath(serverName) == serverName \o <<".pid">>

\* file.replace('.pid', ''): the first occurrence is removed
RECURSIVE replaceFirstPid(_)
replaceFirstPid(file) ==
    IF file = <<>> THEN <<>>
    ELSE IF Head(file) = ".pid" THEN Tail(file)
    ELSE <<Head(file)>> \o replaceFirstPid(Tail(file))

\* new Bun.Glob('*.pid').scan(socketDir)
scanPidFiles(pids) == {getPidPath(n) : n \in {m \in SweepNames : pids[m] # NoFile}}

\* readPidFile: null for a missing or unparsable file
readPidFile(pids, serverName) ==
    IF serverName \in SweepNames /\ pids[serverName] \in SweepPids
    THEN pids[serverName] ELSE NoFile

\* the servers whose files the loop of cleanupOrphanedDaemons removes
orphans(pids, alive) ==
    {n \in {replaceFirstPid(f) : f \in scanPidFiles(pids)} :
        /\ readPidFile(pids, n) # NoFile
        /\ readPidFile(pids, n) \notin alive}

OrphanInit ==
    /\ opc = "idle"
    /\ opids = [n \in SweepNames |-> NoFile]
    /\ osocks = {}
    /\ oalive = {}

\* the socket directory as earlier runs and crashes left it
OrphanSetup ==
    /\ opc = "idle"
    /\ opids' \in [SweepNames -> {NoFile, Unparsable} \cup SweepPids]
    /\ osocks' \in SUBSET SweepNames
    /\ oalive' \in SUBSET SweepPids
    /\ opc' = "ready"
    /\ UNCHANGED notOrphanVars

\* cleanupOrphanedDaemons: scan, then removePidFile and removeSocketFile for
\* every descriptor read whose pid is not running
cleanupOrphanedDaemons ==
    /\ opc = "ready"
    /\ opids' = [n \in SweepNames |->
                    IF n \in orphans(opids, oalive) THEN NoFile ELSE opids[n]]
    /\ osocks' = osocks \ orphans(opids, oalive)
    /\ opc' = "done"
    /\ UNCHANGED oalive
    /\ UNCHANGED notOrphanVars

NextOrphan ==
    \/ OrphanSetup
    \/ cleanupOrphanedDaemons

(***************************************************************************)
(* One connectToServer call on an HTTP server (client.ts), with the OAuth  *)
(* provider of oauth.ts.  Messages are sequences of words, so that the     *)
(* regular expressions of isTransientError are applied to what the error   *)
(* constructors produce                                                    *)
(***************************************************************************)
\* startCallbackServer: timeoutMs = 300000
CALLBACK_TIMEOUT_MS == 300000

\* the server connected to, and the URL the SDK hands to redirectToAuthorization
AuthServerName == "fs"
AuthorizationUrl == "https://auth.example/authorize"

\* the environments connectToServer runs under (seconds; -1: unset)
AuthEnvs ==
    [timeout : {-1, MaxAuthTimeoutS}, retries : {-1, 0}, delay : {-1}]

\* the callback listener's timeout error
CallbackTimeoutMessage ==
    <<"OAuth", "callback", "timeout", "-", "no", "authorization", "code",
      "received">>

\* error_description (or error) values an authorization server reports
CallbackErrorDescriptions ==
    {<<"access_denied">>, <<"upstream", "timeout">>}

\* the callback listener's error for ?error=...
CallbackErrorMessage(description) ==
    <<"OAuth", "authorization", "failed:">> \o description

TokenExchangeMessage == <<"token", "exchange", "rejected">>

BindFailedMessage ==
    <<"Failed", "to", "start", "OAuth", "callback", "server.">>

ClientCredentialsMessage ==
    <<"client_credentials", "authentication", "failed", "-", "check",
      "clientId", "and", "clientSecret">>

Includes(words, w) == \E i \in 1..Len(words) : words[i] = w

\* oauthFlowError: the suggestion chosen by cause.includes(...)
oauthFlowSuggestion(cause) ==
    IF Includes(cause, "timeout") THEN
        <<"Authorization", "timed", "out.", "Try", "again">>
    ELSE IF Includes(cause, "callback") THEN
        <<"Failed", "to", "receive", "OAuth", "callback.">>
    ELSE IF Includes(cause, "token") THEN
        <<"Token", "exchange", "failed.">>
    ELSE <<"Try", "again", "or", "check", "your", "OAuth", "server",
           "configuration">>

\* formatCliError(oauthFlowError(serverName, cause)), as thrown in an Error
oauthFlowError(serverName, cause) ==
    [name |-> "Error",
     msg  |-> <<"Error", "[OAUTH_FLOW_ERROR]:", "OAuth", "authentication",
                "failed", "for", "server", serverName, "Details:">>
              \o cause \o <<"Suggestion:">> \o oauthFlowSuggestion(cause)]

\* new AuthRequiredError(serverName)
AuthRequiredError(serverName) ==
    [name |-> "AuthRequiredError",
     msg  |-> <<"Server", serverName, "requires", "authentication.", "Run",
                "mcp-cli", serverName, "to", "authenticate.">>]

\* errors client.connect fails with, other than the demand for authorization
ConnectErrors ==
    {[name |-> "Error", msg |-> <<"connection", "refused">>],
     [name |-> "Error", msg |-> <<"404", "Not", "Found">>]}

NoAuthError == [name |-> "", msg |-> <<>>]

\* isTransientError on an error without code: the message patterns
isTransientMessage(words) ==
    \/ Len(words) > 0 /\ words[1] \in {"502", "503", "504", "429"}
    \/ \E i \in 1..Len(words) : words[i] = "timeout"
    \/ \E i \in 1..(Len(words) - 1) :
          \/ words[i] = "network"
                /\ words[i + 1] \in {"error", "fail", "unavailable", "timeout"}
          \/ words[i] = "connection"
                /\ words[i + 1] \in {"reset", "refused", "timeout"}
          \/ words[i] \in {"HTTP", "status"}
                /\ words[i + 1] \in {"502", "503", "504", "429"}

\* withRetry: shouldRetry for the error of a connect attempt
connectShouldRetry(att, config, err, remainingBudget) ==
    /\ att < config.maxRetries
    /\ isTransientMessage(err.msg)
    /\ remainingBudget > MIN_REMAINING_MS

AuthInit ==
    /\ apc = "idle"
    /\ aenv = [timeout |-> -1, retries |-> -1, delay |-> -1]
    /\ aopt = TRUE
    /\ agrant = "authorization_code"
    /\ aattempt = 0
    /\ aelapsed = 0
    /\ alisteners = 0
    /\ abrowsers = 0
    /\ alistening = FALSE
    /\ atokens = FALSE
    /\ aerror = NoAuthError
    /\ aresult = "none"
    /\ acbfailed = FALSE
    /\ ademanded = FALSE
    /\ awaited = FALSE

\* connectToServer is called: options and environment are read, withRetry
\* starts
AuthStart ==
    /\ apc = "idle"
    /\ \E env \in AuthEnvs, allow \in BOOLEAN,
          grant \in {"authorization_code", "client_credentials"} :
          /\ aenv' = env
          /\ aopt' = allow
          /\ agrant' = grant
    /\ apc' = "top"
    /\ UNCHANGED <<aattempt, aelapsed, alisteners, abrowsers, alistening,
                   atokens, aerror, aresult, acbfailed, ademanded, awaited>>
    /\ UNCHANGED notAuthVars

\* withRetry, top of the loop: the budget check, then fn() builds a new
\* client, transport and provider and calls client.connect
AuthLoopTop ==
    /\ apc = "top"
    /\ IF aelapsed >= getRetryConfig(aenv).totalBudgetMs
         THEN apc' = "done" /\ aresult' = "raised"
         ELSE apc' = "connect" /\ UNCHANGED aresult
    /\ alistening' = FALSE
    /\ UNCHANGED <<aenv, aopt, agrant, aattempt, aelapsed, alisteners,
                   abrowsers, atokens, aerror, acbfailed, ademanded, awaited>>
    /\ UNCHANGED notAuthVars

\* client.connect resolves
AuthConnectOk ==
    /\ apc = "connect"
    /\ apc' = "done"
    /\ aresult' = "connected"
    /\ UNCHANGED <<aenv, aopt, agrant, aattempt, aelapsed, alisteners,
                   abrowsers, alistening, atokens, aerror, acbfailed,
                   ademanded, awaited>>
    /\ UNCHANGED notAuthVars

\* client.connect rejects with an error that is not a demand for authorization
AuthConnectFails ==
    /\ apc = "connect"
    /\ \E err \in ConnectErrors : aerror' = err
    /\ apc' = "caught"
    /\ UNCHANGED <<aenv, aopt, agrant, aattempt, aelapsed, alisteners,
                   abrowsers, alistening, atokens, aresult, acbfailed,
                   ademanded, awaited>>
    /\ UNCHANGED notAuthVars

\* the server answers 401: the SDK calls redirectToAuthorization and rejects
\* with UnauthorizedError; the catch block of connectToServer takes its branch
AuthConnectUnauthorized ==
    /\ apc = "connect"
    /\ ademanded' = TRUE
    /\ \E bound \in BOOLEAN :
        IF ~aopt THEN
            \* redirectToAuthorization returns at once; AuthRequiredError
            /\ aerror' = AuthRequiredError(AuthServerName)
            /\ apc' = "caught"
            /\ UNCHANGED <<alisteners, abrowsers, alistening, awaited>>
        ELSE IF agrant # "authorization_code" THEN
            /\ aerror' = oauthFlowError(AuthServerName, ClientCredentialsMessage)
            /\ apc' = "caught"
            /\ alisteners' = alisteners + (IF bound THEN 1 ELSE 0)
            /\ abrowsers' = abrowsers + (IF bound THEN 1 ELSE 0)
            /\ alistening' = bound
            /\ UNCHANGED awaited
        ELSE IF bound THEN
            \* listener bound, browser opened, waitForCallback pending
            /\ alisteners' = alisteners + 1
            /\ abrowsers' = abrowsers + 1
            /\ alistening' = TRUE
            /\ awaited' = TRUE
            /\ apc' = "waiting"
            /\ UNCHANGED aerror
        ELSE
            \* no port could be bound: waitForCallback rejects
            /\ aerror' = oauthFlowError(AuthServerName, BindFailedMessage)
            /\ awaited' = TRUE
            /\ apc' = "caught"
            /\ UNCHANGED <<alisteners, abrowsers, alistening>>
    /\ UNCHANGED <<aenv, aopt, agrant, aattempt, aelapsed, atokens, aresult,
                   acbfailed>>
    /\ UNCHANGED notAuthVars

\* the callback delivers a code: the listener closes itself, finishAuth
\* exchanges the code and saves the tokens, a new client connects
AuthCallbackCode ==
    /\ apc = "waiting"
    /\ alistening' = FALSE
    /\ aelapsed' = aelapsed + 1000
    /\ \E exchanged \in BOOLEAN :
          IF exchanged
          THEN /\ atokens' = TRUE
               /\ aresult' = "connected"
               /\ apc' = "done"
               /\ UNCHANGED aerror
          ELSE /\ aerror' = oauthFlowError(AuthServerName, TokenExchangeMessage)
               /\ apc' = "caught"
               /\ UNCHANGED <<atokens, aresult>>
    /\ UNCHANGED <<aenv, aopt, agrant, aattempt, alisteners, abrowsers,
                   acbfailed, ademanded, awaited>>
    /\ UNCHANGED notAuthVars

\* the callback reports ?error=...: the listener closes itself and rejects
AuthCallbackError ==
    /\ apc = "waiting"
    /\ alistening' = FALSE
    /\ aelapsed' = aelapsed + 1000
    /\ acbfailed' = TRUE
    /\ \E d \in CallbackErrorDescriptions :
          aerror' = oauthFlowError(AuthServerName, CallbackErrorMessage(d))
    /\ apc' = "caught"
    /\ UNCHANGED <<aenv, aopt, agrant, aattempt, alisteners, abrowsers,
                   atokens, aresult, ademanded, awaited>>
    /\ UNCHANGED notAuthVars

\* the listener's timer fires: the listener closes itself and rejects
AuthCallbackTimeout ==
    /\ apc = "waiting"
    /\ alistening' = FALSE
    /\ aelapsed' = aelapsed + CALLBACK_TIMEOUT_MS
    /\ acbfailed' = TRUE
    /\ aerror' = oauthFlowError(AuthServerName, CallbackTimeoutMessage)
    /\ apc' = "caught"
    /\ UNCHANGED <<aenv, aopt, agrant, aattempt, alisteners, abrowsers,
                   atokens, aresult, ademanded, awaited>>
    /\ UNCHANGED notAuthVars

\* withRetry, catch: sleep and go round again, or throw the error
AuthCatch ==
    /\ apc = "caught"
    /\ LET config == getRetryConfig(aenv)
           remainingBudget == config.totalBudgetMs - aelapsed
       IN  IF connectShouldRetry(aattempt, config, aerror, remainingBudget)
           THEN /\ aelapsed' = aelapsed
                      + Min(calculateDelay(aattempt, config, 0),
                            remainingBudget - MIN_REMAINING_MS)
                /\ aattempt' = aattempt + 1
                /\ apc' = "top"
                /\ UNCHANGED aresult
           ELSE /\ aresult' = "raised"
                /\ apc' = "done"
                /\ UNCHANGED <<aelapsed, aattempt>>
    /\ UNCHANGED <<aenv, aopt, agrant, alisteners, abrowsers, alistening,
                   atokens, aerror, acbfailed, ademanded, awaited>>
    /\ UNCHANGED notAuthVars

NextAuth ==
    \/ AuthStart
    \/ AuthLoopTop
    \/ AuthConnectOk
    \/ AuthConnectFails
    \/ AuthConnectUnauthorized
    \/ AuthCallbackCode
    \/ AuthCallbackError
    \/ AuthCallbackTimeout
    \/ AuthCatch

(***************************************************************************)
(* The provider's client registration record (oauth/provider.ts:           *)
(* redirectUrl, clientInformation, invalidateCredentials)                  *)
(***************************************************************************)
\* an absent value (undefined / null) where a port or a record is expected
Absent == -1

\* callbackPort values of the oauth config (Absent: not configured)
ConfiguredPorts == {Absent, 80, 3000}

\* ports a listener of this provider may be bound to (Absent: none bound yet)
BoundPorts == {Absent, 80, 3000}

\* the redirect URL for a port: port 80 is left out of the URL
CallbackUrl(port) ==
    IF port = 80 THEN <<"http://localhost", "/callback">>
    ELSE <<"http://localhost:", port, "/callback">>

\* a ?? b
Coalesce(a, b) == IF a # Absent THEN a ELSE b

\* get redirectUrl: undefined for client_credentials
redirectUrl(config, actualCallbackPort) ==
    IF config.grantType = "client_credentials" THEN <<>>
    ELSE CallbackUrl(Coalesce(actualCallbackPort,
                              Coalesce(config.callbackPort,
                                       DEFAULT_CALLBACK_PORT)))

\* redirect URLs a stored record may list
StoredUrls == {CallbackUrl(80), CallbackUrl(3000), CallbackUrl(DEFAULT_CALLBACK_PORT)}

NoRecord == [client_id |-> "", redirect_uris |-> {}, has_uris |-> FALSE]

\* contents of <clients>/<server>.json: none, or a record whose redirect_uris
\* field is missing, empty or a list of URLs
StoredRecords ==
    {NoRecord} \cup
    [client_id : {"dynamic-client"}, redirect_uris : {{}}, has_uris : {FALSE}] \cup
    [client_id : {"dynamic-client"}, redirect_uris : SUBSET StoredUrls,
     has_uris : {TRUE}]

OAuthConfigs ==
    [clientId : {"", "static-id"},
     grantType : {"authorization_code", "client_credentials"},
     callbackPort : ConfiguredPorts]

\* clientInformation: does the stored record fail the redirect_uris check
mismatch(stored, current) ==
    /\ stored.has_uris
    /\ stored.redirect_uris # {}
    /\ ~(current # <<>> /\ current \in stored.redirect_uris)

\* clientInformation: the value returned
clientInformation(config, stored, actualCallbackPort) ==
    IF config.clientId # "" THEN
        [client_id |-> config.clientId, redirect_uris |-> {}, has_uris |-> FALSE]
    ELSE IF stored # NoRecord
            /\ mismatch(stored, redirectUrl(config, actualCallbackPort))
    THEN NoRecord
    ELSE stored

\* clientInformation: the client file afterwards (invalidateCredentials('client'))
clientFileAfter(config, stored, actualCallbackPort) ==
    IF config.clientId = "" /\ stored # NoRecord
            /\ mismatch(stored, redirectUrl(config, actualCallbackPort))
    THEN NoRecord
    ELSE stored

ClientInit ==
    /\ cipc = "idle"
    /\ ciconfig = [clientId |-> "", grantType |-> "authorization_code",
                   callbackPort |-> Absent]
    /\ ciactual = Absent
    /\ cistored = NoRecord
    /\ cireturned = NoRecord

\* a provider is constructed over the client file an earlier run left
ClientSetup ==
    /\ cipc = "idle"
    /\ ciconfig' \in OAuthConfigs
    /\ ciactual' \in BoundPorts
    /\ cistored' \in StoredRecords
    /\ cipc' = "ready"
    /\ UNCHANGED cireturned
    /\ UNCHANGED notClientVars

\* clientInformation()
ClientInformationCall ==
    /\ cipc = "ready"
    /\ cireturned' = clientInformation(ciconfig, cistored, ciactual)
    /\ cistored' = clientFileAfter(ciconfig, cistored, ciactual)
    /\ cipc' = "done"
    /\ UNCHANGED <<ciconfig, ciactual>>
    /\ UNCHANGED notClientVars

NextClient ==
    \/ ClientSetup
    \/ ClientInformationCall

(***************************************************************************)
(* The callback listener (oauth/callback-server.ts) and the provider       *)
(* methods that bind it (oauth/provider.ts: getPortsToTry,                 *)
(* preStartCallbackServer, redirectToAuthorization, waitForCallback,       *)
(* cleanupCallbackServer)                                                  *)
(***************************************************************************)
\* DEFAULT_PORT_FALLBACK_ORDER of oauth.ts, the module client.ts imports (the
\* last entry, 0, asks the OS for a random port)
DEFAULT_PORT_FALLBACK_ORDER == <<80, 8080, 3000, 8095, 0>>

\* the port the OS assigns to the n-th listener bound with port 0
RandomPort(n) == 49152 + n

ListenerIds == 1..MaxListeners

\* callbackPort and callbackPorts of the oauth config (Absent, <<>>: not set)
ListenerConfigs ==
    [callbackPort : {Absent, 0, 3000},
     callbackPorts : {<<>>, <<3000, 80>>}]

\* the fixed ports no other program holds
FreePortSets == {{}, {80}, {80, 3000}}

SeqIncludes(s, x) == \E i \in 1..Len(s) : s[i] = x

RECURSIVE AppendNew(_, _)
\* for (const port of order) if (!ports.includes(port)) ports.push(port)
AppendNew(ports, order) ==
    IF order = <<>> THEN ports
    ELSE AppendNew(IF SeqIncludes(ports, Head(order)) THEN ports
                   ELSE Append(ports, Head(order)),
                   Tail(order))

\* getPortsToTry: a callbackPort of 0 is falsy and is not put first
getPortsToTry(config) ==
    IF Len(config.callbackPorts) > 0 THEN config.callbackPorts
    ELSE AppendNew(IF config.callbackPort \notin {Absent, 0}
                   THEN <<config.callbackPort>> ELSE <<>>,
                   DEFAULT_PORT_FALLBACK_ORDER)

\* server.listen(port) succeeds: port 0 always, a fixed port when no other
\* program and no open listener of this process holds it
Bindable(port, free, srv) ==
    \/ port = 0
    \/ /\ port \in free
       /\ \A i \in ListenerIds : ~(srv[i].open /\ srv[i].port = port)

RECURSIVE FirstBindable(_, _, _)
\* startCallbackServerWithFallback: the first port of the list that binds
\* (Absent: all failed)
FirstBindable(ports, free, srv) ==
    IF ports = <<>> THEN Absent
    ELSE IF Bindable(Head(ports), free, srv) THEN Head(ports)
    ELSE FirstBindable(Tail(ports), free, srv)

\* a listener slot: never bound
NoListener == [port |-> Absent, open |-> FALSE, timer |-> FALSE,
               promise |-> "none", closedBy |-> ""]

\* paths and query strings of the requests a listener receives
RequestPaths == {"/callback", "/favicon.ico", "/other"}
RequestQueries == {"", "code", "error"}

\* the request handler of startCallbackServer: status written and what
\* happens to the pending callback ("none": left pending)
handleCallback(path, query) ==
    IF path = "/favicon.ico" /\ query = "" THEN
        [status |-> 404, settle |-> "none"]
    ELSE IF query = "code" THEN [status |-> 200, settle |-> "resolved"]
    ELSE IF query = "error" THEN [status |-> 400, settle |-> "rejected"]
    ELSE [status |-> 400, settle |-> "none"]

cleanupKeepsTimer(l, by) == [l EXCEPT !.open = FALSE, !.closedBy = by]

\* cleanup of startCallbackServer: clearTimeout and server.close(); by: the
\* caller (history)
cleanupListener(l, by) ==
    [l EXCEPT !.open = FALSE, !.timer = FALSE, !.closedBy = by]

NoResponseYet == [listener |-> 0, path |-> "", query |-> "", status |-> 0,
                  settle |-> "none"]

ListenerInit ==
    /\ lpc = "idle"
    /\ lconfig = [callbackPort |-> Absent, callbackPorts |-> <<>>]
    /\ lfree = {}
    /\ lsrv = [i \in ListenerIds |-> NoListener]
    /\ lstate = 0
    /\ lstarting = 0
    /\ lactual = Absent
    /\ lbinding = {}
    /\ lwait = "none"
    /\ lwaitTask = 0
    /\ lwaitOn = 0
    /\ lbrowsers = 0
    /\ lcalls = 0
    /\ lresp = NoResponseYet

\* a provider is constructed
ListenerSetup ==
    /\ lpc = "idle"
    /\ lconfig' \in ListenerConfigs
    /\ lfree' \in FreePortSets
    /\ lpc' = "ready"
    /\ UNCHANGED <<lsrv, lstate, lstarting, lactual, lbinding, lwait,
                   lwaitTask, lwaitOn, lbrowsers, lcalls, lresp>>
    /\ UNCHANGED notListenerVars

\* listeners bound so far
Bound(srv) == {i \in ListenerIds : srv[i].port # Absent}

\* a further startCallbackServerWithFallback may be started within the bounds
MayBind == Cardinality(Bound(lsrv)) + Cardinality(lbinding) < MaxListeners

\* preStartCallbackServer up to its first await
PreStartCall ==
    /\ lpc = "ready"
    /\ lcalls < MaxCalls
    /\ lcalls' = lcalls + 1
    /\ IF lactual # Absent \/ lstarting # 0
         THEN UNCHANGED lbinding
         ELSE /\ MayBind
              /\ lbinding' = lbinding \cup {[id |-> lcalls + 1, kind |-> "prestart"]}
    /\ UNCHANGED <<lpc, lconfig, lfree, lsrv, lstate, lstarting, lactual, lwait,
                   lwaitTask, lwaitOn, lbrowsers, lresp>>
    /\ UNCHANGED notListenerVars

\* redirectToAuthorization (interactive): the browser is opened on a listener
\* already bound, or the listener is started first
RedirectCall ==
    /\ lpc = "ready"
    /\ lcalls < MaxCalls
    /\ lcalls' = lcalls + 1
    /\ IF lstate # 0 /\ lactual # Absent
         THEN /\ lbrowsers' = lbrowsers + 1
              /\ UNCHANGED <<lbinding, lstarting>>
         ELSE /\ MayBind
              /\ lbinding' = lbinding \cup {[id |-> lcalls + 1, kind |-> "redirect"]}
              /\ lstarting' = lcalls + 1
              /\ UNCHANGED lbrowsers
    /\ UNCHANGED <<lpc, lconfig, lfree, lsrv, lstate, lactual, lwait, lwaitTask,
                   lwaitOn, lresp>>
    /\ UNCHANGED notListenerVars

\* waitForCallback up to its first await
WaitCall ==
    /\ lpc = "ready"
    /\ lcalls < MaxCalls
    /\ lwait = "none"
    /\ lcalls' = lcalls + 1
    /\ IF lstarting # 0
         THEN /\ lwait' = "awaitStarting"
              /\ lwaitTask' = lstarting
              /\ UNCHANGED <<lbinding, lwaitOn>>
         ELSE IF lstate = 0
         THEN /\ MayBind
              /\ lbinding' = lbinding \cup {[id |-> lcalls + 1, kind |-> "wait"]}
              /\ lwait' = "binding"
              /\ UNCHANGED <<lwaitTask, lwaitOn>>
         ELSE /\ lwait' = "onPromise"
              /\ lwaitOn' = lstate
              /\ UNCHANGED <<lbinding, lwaitTask>>
    /\ UNCHANGED <<lpc, lconfig, lfree, lsrv, lstate, lstarting, lactual,
                   lbrowsers, lresp>>
    /\ UNCHANGED notListenerVars

\* one startCallbackServerWithFallback settles and its caller goes on
BindSettles ==
    /\ lpc = "ready"
    /\ \E t \in lbinding :
        LET port == FirstBindable(getPortsToTry(lconfig), lfree, lsrv)
            n == Cardinality(Bound(lsrv)) + 1
            woken == lwait = "awaitStarting" /\ lwaitTask = t.id
        IN  /\ lbinding' = lbinding \ {t}
            /\ lstarting' = IF t.kind = "redirect" THEN 0 ELSE lstarting
            /\ IF port = Absent
                 THEN /\ lwait' = IF t.kind = "wait" \/ woken
                                  THEN "failed" ELSE lwait
                      /\ UNCHANGED <<lsrv, lstate, lactual, lwaitOn, lbrowsers>>
                 ELSE /\ lsrv' = [lsrv EXCEPT ![n] =
                            [port |-> IF port = 0 THEN RandomPort(n) ELSE port,
                             open |-> TRUE, timer |-> TRUE,
                             promise |-> "pending", closedBy |-> ""]]
                      /\ lstate' = n
                      /\ lactual' = lsrv'[n].port
                      /\ lbrowsers' = lbrowsers
                            + (IF t.kind = "redirect" THEN 1 ELSE 0)
                      /\ IF t.kind = "wait" \/ woken
                           THEN lwait' = "onPromise" /\ lwaitOn' = n
                           ELSE UNCHANGED <<lwait, lwaitOn>>
    /\ UNCHANGED <<lpc, lconfig, lfree, lwaitTask, lcalls, lresp>>
    /\ UNCHANGED notListenerVars

\* an HTTP request reaches an open listener
HttpRequest ==
    /\ lpc = "ready"
    /\ \E i \in ListenerIds, path \in RequestPaths, query \in RequestQueries :
        LET r == handleCallback(path, query) IN
        /\ lsrv[i].open
        /\ lresp' = [listener |-> i, path |-> path, query |-> query,
                     status |-> r.status, settle |-> r.settle]
        /\ lsrv' = IF r.settle = "none" THEN lsrv
                   ELSE [lsrv EXCEPT ![i] =
                            [cleanupListener(lsrv[i], query)
                                EXCEPT !.promise = r.settle]]
    /\ UNCHANGED <<lpc, lconfig, lfree, lstate, lstarting, lactual, lbinding,
                   lwait, lwaitTask, lwaitOn, lbrowsers, lcalls>>
    /\ UNCHANGED notListenerVars

\* the timer of a listener fires: cleanup, the pending callback is rejected
ListenerTimeout ==
    /\ lpc = "ready"
    /\ \E i \in ListenerIds :
        /\ lsrv[i].timer
        /\ lsrv' = [lsrv EXCEPT ![i] =
                      [cleanupListener(lsrv[i], "timeout") EXCEPT
                          !.promise = IF @ = "pending" THEN "rejected" ELSE @]]
    /\ UNCHANGED <<lpc, lconfig, lfree, lstate, lstarting, lactual, lbinding,
                   lwait, lwaitTask, lwaitOn, lbrowsers, lcalls, lresp>>
    /\ UNCHANGED notListenerVars

\* cleanupCallbackServer
CleanupCall ==
    /\ lpc = "ready"
    /\ lcalls < MaxCalls
    /\ lcalls' = lcalls + 1
    /\ IF lstate # 0
         THEN /\ lsrv' = [lsrv EXCEPT ![lstate] =
                            IF @.open THEN cleanupListener(@, "cleanup") ELSE @]
              /\ lstate' = 0
         ELSE UNCHANGED <<lsrv, lstate>>
    /\ UNCHANGED <<lpc, lconfig, lfree, lstarting, lactual, lbinding, lwait,
                   lwaitTask, lwaitOn, lbrowsers, lresp>>
    /\ UNCHANGED notListenerVars

NextListener ==
    \/ ListenerSetup
    \/ PreStartCall
    \/ RedirectCall
    \/ WaitCall
    \/ BindSettles
    \/ HttpRequest
    \/ ListenerTimeout
    \/ CleanupCall

(***************************************************************************)
(* Tool lists obtained by the commands (list, info, grep, search)          *)
(***************************************************************************)
\* the tools a server reports: up to MaxTools distinct names, in order
ToolLists ==
    UNION {{s \in [1..n -> ToolNames] : \A i, j \in 1..n : s[i] = s[j] => i = j}
           : n \in 0..MaxTools}

\* the commands that obtain a tool list
ListCommands == {"list", "info", "grep", "search"}

\* A filterTools in which allowedTools is looked at first
filterToolsAllowFirst(tools, config) ==
    SelectSeq(tools, LAMBDA tool : isToolAllowedAllowFirst(tool, config))

\* filterTools: tools.filter with disabledTools first, then allowedTools
filterTools(tools, config) ==
    LET keeps(tool) ==
            IF config.disabledTools # {}
               /\ matchesAnyPattern(tool, config.disabledTools)
            THEN FALSE
            ELSE IF config.allowedTools # {}
            THEN matchesAnyPattern(tool, config.allowedTools)
            ELSE TRUE
    IN SelectSeq(tools, keeps)

FilterInit ==
    /\ tpc = "idle"
    /\ trec = NoFilter
    /\ ttools = <<>>
    /\ tcommand = "none"
    /\ tvia = "none"
    /\ tlist = <<>>

\* a command starts for a server: its record and the tools the server reports
commandStart ==
    /\ tpc = "idle"
    /\ \E rec \in FilterRecords, tools \in ToolLists, cmd \in ListCommands :
        /\ trec' = rec
        /\ ttools' = tools
        /\ tcommand' = cmd
    /\ tpc' = "fetch"
    /\ UNCHANGED <<tvia, tlist>>
    /\ UNCHANGED notFilterVars

\* list, info, grep: getConnection(...).listTools() on the daemon-backed handle
\* (the daemon returns the server's list, the handle filters it)
listToolsDaemon ==
    /\ tpc = "fetch"
    /\ tcommand \in {"list", "info", "grep"}
    /\ tlist' = filterTools(ttools, trec)
    /\ tvia' = "daemon"
    /\ tpc' = "listed"
    /\ UNCHANGED <<trec, ttools, tcommand>>
    /\ UNCHANGED notFilterVars

\* list, info, grep: getConnection(...).listTools() on the direct handle
listToolsDirect ==
    /\ tpc = "fetch"
    /\ tcommand \in {"list", "info", "grep"}
    /\ tlist' = filterTools(ttools, trec)
    /\ tvia' = "direct"
    /\ tpc' = "listed"
    /\ UNCHANGED <<trec, ttools, tcommand>>
    /\ UNCHANGED notFilterVars

\* search: fetchServerTools connects with connectToServer and takes
\* listTools(client) as it comes
searchFetchServerTools ==
    /\ tpc = "fetch"
    /\ tcommand = "search"
    /\ tlist' = ttools
    /\ tvia' = "client"
    /\ tpc' = "listed"
    /\ UNCHANGED <<trec, ttools, tcommand>>
    /\ UNCHANGED notFilterVars

\* the command ends
commandEnd ==
    /\ tpc = "listed"
    /\ tpc' = "idle"
    /\ trec' = NoFilter
    /\ ttools' = <<>>
    /\ tcommand' = "none"
    /\ tvia' = "none"
    /\ tlist' = <<>>
    /\ UNCHANGED notFilterVars

NextFilter ==
    \/ commandStart
    \/ listToolsDaemon
    \/ listToolsDirect
    \/ searchFetchServerTools
    \/ commandEnd

(***************************************************************************)
(* Environment variable substitution at config load (config.ts)            *)
(***************************************************************************)
\* variable names a config may reference
EnvNames == {"A", "B"}

\* a string value, as the ${...} references it holds, in order
EnvStrings == UNION {[1..n -> EnvNames] : n \in 0..MaxRefs}

\* the config tree, as its string values in the order the recursion visits them
EnvTrees == UNION {[1..n -> EnvStrings] : n \in 0..MaxLeaves}

\* substituteEnvVars: the names pushed on missingVars, one per reference
missingVars(value, env) == SelectSeq(value, LAMBDA v : v \notin env)

RECURSIVE substituteEnvVarsInObject(_, _, _)
\* substituteEnvVarsInObject: each string in turn goes through
\* substituteEnvVars, which throws in strict mode on the first string that has
\* missing names, listing the names of that string
substituteEnvVarsInObject(tree, env, strict) ==
    IF tree = <<>> THEN [kind |-> "ok", listed |-> <<>>]
    ELSE IF strict /\ missingVars(Head(tree), env) # <<>>
    THEN [kind |-> "MISSING_ENV_VAR", listed |-> missingVars(Head(tree), env)]
    ELSE substituteEnvVarsInObject(Tail(tree), env, strict)

NotLoaded == [kind |-> "none", listed |-> <<>>]

EnvInit ==
    /\ epc = "idle"
    /\ etree = <<>>
    /\ eenv = {}
    /\ estrict = TRUE
    /\ eresult = NotLoaded

\* a config file and an environment (MCP_STRICT_ENV among it)
envSetup ==
    /\ epc = "idle"
    /\ \E tree \in EnvTrees, env \in SUBSET EnvNames, strict \in BOOLEAN :
        /\ etree' = tree
        /\ eenv' = env
        /\ estrict' = strict
    /\ epc' = "load"
    /\ UNCHANGED eresult
    /\ UNCHANGED notEnvVars

\* loadConfig: substituteEnvVarsInObject(config)
loadConfig ==
    /\ epc = "load"
    /\ eresult' = substituteEnvVarsInObject(etree, eenv, estrict)
    /\ epc' = "loaded"
    /\ UNCHANGED <<etree, eenv, estrict>>
    /\ UNCHANGED notEnvVars

\* the process ends
envReset ==
    /\ epc = "loaded"
    /\ epc' = "idle"
    /\ etree' = <<>>
    /\ eenv' = {}
    /\ estrict' = TRUE
    /\ eresult' = NotLoaded
    /\ UNCHANGED notEnvVars

NextEnv ==
    \/ envSetup
    \/ loadConfig
    \/ envReset

(***************************************************************************)
(* Exit code of a command whose connection went through connectToServer    *)
(***************************************************************************)
\* the commands under src/ that connect to one or more servers
ConnectingCommands == {"list", "grep", "search", "info"}

ExitInit ==
    /\ xcommand = "none"
    /\ xexit = NoExit

\* infoCommand: a getConnection that throws ends the process with
\* NETWORK_ERROR, whatever was thrown; otherwise main resolves and exits 0
infoCommandExit ==
    /\ apc = "done"
    /\ xexit = NoExit
    /\ xcommand' = "info"
    /\ xexit' = IF aresult = "raised" THEN NETWORK_ERROR ELSE 0
    /\ UNCHANGED authVars
    /\ UNCHANGED <<retryVars, hashVars, daemonVars, callVars, poolVars,
                   workerVars, orphanVars, clientVars, listenerVars,
                   filterVars, envVars, sendVars>>

\* list, grep, search: the error of a server is caught in fetchServerTools /
\* searchServerTools and shown with the results; main resolves and exits 0
fetchCommandExit ==
    /\ apc = "done"
    /\ xexit = NoExit
    /\ \E cmd \in ConnectingCommands \ {"info"} : xcommand' = cmd
    /\ xexit' = 0
    /\ UNCHANGED authVars
    /\ UNCHANGED <<retryVars, hashVars, daemonVars, callVars, poolVars,
                   workerVars, orphanVars, clientVars, listenerVars,
                   filterVars, envVars, sendVars>>

NextExit ==
    \/ NextAuth
    \/ infoCommandExit
    \/ fetchCommandExit

(***************************************************************************)
(* daemon-client.ts sendRequest: one request over the daemon's socket      *)
(***************************************************************************)
\* a response as the daemon writes it: JSON.stringify(response) + '\n', one
\* element a run of bytes
Frame(payload) == <<"{", payload, "}", "\n">>

\* the ways the kernel may hand a frame of n elements to the reader: the
\* number of elements in the first read
FirstReads(n) == 1..n

\* String.prototype.trim on the end of a chunk
trim(chunk) ==
    IF chunk # <<>> /\ chunk[Len(chunk)] = "\n"
    THEN SubSeq(chunk, 1, Len(chunk) - 1) ELSE chunk

\* JSON.parse: the value of a complete object, or a SyntaxError
JSONparse(text) ==
    IF Len(text) = 3 /\ text[1] = "{" /\ text[3] = "}"
    THEN [ok |-> TRUE, value |-> text[2]]
    ELSE [ok |-> FALSE, value |-> "SyntaxError"]

\* the data handler of sendRequest: JSON.parse(data.toString().trim()) on the
\* bytes of this read; resolve, or reject with 'Invalid response from daemon'
onData(chunk) ==
    IF JSONparse(trim(chunk)).ok
    THEN [settle |-> "resolved", value |-> JSONparse(trim(chunk)).value]
    ELSE [settle |-> "rejected", value |-> "Invalid response from daemon"]

\* a request as sendRequest writes it: JSON.stringify(request), no newline
Request(type) == <<"{", type, "}">>

\* the payload the daemon answers a request type with
answerOf(type) ==
    CASE type = "ping" -> "ping"
      [] type = "listTools" -> "tools"
      [] OTHER -> "result"

\* handleRequest of the daemon on the bytes of one read: JSON.parse of the
\* chunk, INVALID_REQUEST when it does not parse
handleRequest(chunk) ==
    IF JSONparse(chunk).ok THEN answerOf(JSONparse(chunk).value)
    ELSE "INVALID_REQUEST"

Pending == [settle |-> "none", value |-> ""]

SendInit ==
    /\ spc = "idle"
    /\ stype = "none"
    /\ sdur = 0
    /\ sfirst = 0
    /\ sreqfirst = 0
    /\ sclock = 0
    /\ swritten = FALSE
    /\ sfired = FALSE
    /\ spromise = Pending

\* sendRequest: Bun.connect, the request is written on open and the 5 s timer
\* is set; the daemon's first read holds sreqfirst elements of the request,
\* the server takes sdur seconds over a request the daemon forwards, and the
\* first read of the answer will hold sfirst elements of its frame
sendRequest ==
    /\ spc = "idle"
    /\ \E type \in {"ping", "listTools", "callTool"}, dur \in 0..MaxSendS,
          reqfirst \in FirstReads(Len(Request("ping"))),
          first \in FirstReads(Len(Frame("result"))) :
        /\ stype' = type
        /\ sdur' = IF type = "ping" \/ reqfirst < Len(Request(type))
                   THEN 0 ELSE dur
        /\ sreqfirst' = reqfirst
        /\ sfirst' = first
    /\ spc' = "waiting"
    /\ sclock' = 0
    /\ swritten' = FALSE
    /\ sfired' = FALSE
    /\ spromise' = Pending
    /\ UNCHANGED notSendVars

\* a second passes; the timer and the daemon's answer are not overtaken
sendTick ==
    /\ spc = "waiting"
    /\ sclock < MaxSendS
    /\ swritten \/ sclock < sdur
    /\ sfired \/ 1000 * sclock < DAEMON_REQUEST_TIMEOUT_MS
    /\ sclock' = sclock + 1
    /\ UNCHANGED <<spc, stype, sdur, sreqfirst, sfirst, swritten, sfired, spromise>>
    /\ UNCHANGED notSendVars

\* the daemon's data handler answers its first read of the request and the
\* first read of that answer reaches the data handler of sendRequest, which
\* settles the promise if it is still pending and ends the socket
sendData ==
    /\ spc = "waiting"
    /\ ~swritten
    /\ sclock = sdur
    /\ swritten' = TRUE
    /\ spromise' = IF spromise.settle = "none"
                   THEN onData(SubSeq(
                            Frame(handleRequest(
                                SubSeq(Request(stype), 1, sreqfirst))),
                            1, sfirst))
                   ELSE spromise
    /\ UNCHANGED <<spc, stype, sdur, sreqfirst, sfirst, sclock, sfired>>
    /\ UNCHANGED notSendVars

\* the timer of sendRequest fires: reject(new Error('Daemon request timeout'))
sendTimeout ==
    /\ spc = "waiting"
    /\ ~sfired
    /\ 1000 * sclock = DAEMON_REQUEST_TIMEOUT_MS
    /\ sfired' = TRUE
    /\ spromise' = IF spromise.settle = "none"
                   THEN [settle |-> "rejected", value |-> "Daemon request timeout"]
                   ELSE spromise
    /\ UNCHANGED <<spc, stype, sdur, sreqfirst, sfirst, sclock, swritten>>
    /\ UNCHANGED notSendVars

\* the caller has its outcome
sendDone ==
    /\ spc = "waiting"
    /\ spromise.settle # "none"
    /\ sfired
    /\ swritten
    /\ spc' = "idle"
    /\ UNCHANGED <<stype, sdur, sreqfirst, sfirst, sclock, swritten, sfired, spromise>>
    /\ UNCHANGED notSendVars

NextSend ==
    \/ sendRequest
    \/ sendTick
    \/ sendData
    \/ sendTimeout
    \/ sendDone

Init ==
    /\ RetryInit /\ HashInit /\ DaemonInit /\ CallInit /\ PoolInit /\ WorkerInit
    /\ OrphanInit
    /\ AuthInit
    /\ ClientInit
    /\ ListenerInit
    /\ FilterInit
    /\ EnvInit
    /\ ExitInit
    /\ SendInit

SpecRetry == Init /\ [][NextRetry]_vars

SpecHash == Init /\ [][NextHash]_vars

SpecDaemon == Init /\ [][NextDaemon]_vars

SpecCall == Init /\ [][NextCall]_vars

SpecPool == Init /\ [][NextPool]_vars

SpecWorker == Init /\ [][NextWorker]_vars

SpecOrphan == Init /\ [][NextOrphan]_vars

SpecAuth == Init /\ [][NextAuth]_vars

SpecClient == Init /\ [][NextClient]_vars

SpecListener == Init /\ [][NextListener]_vars

SpecFilter == Init /\ [][NextFilter]_vars

SpecEnv == Init /\ [][NextEnv]_vars

SpecExit == Init /\ [][NextExit]_vars

SpecSend == Init /\ [][NextSend]_vars

\* the event loop runs the timer callback of every listener whose timer is
\* still armed
ListenerFairness == WF_vars(ListenerTimeout)

SpecListenerFair == SpecListener /\ ListenerFairness

\* every timer that is due fires and every pending close() settles
WorkerFairness ==
    /\ WF_vars(WorkerIdleFires)
    /\ WF_vars(WorkerCloseFires)
    /\ WF_vars(WorkerCleanupDone)

SpecWorkerFair == SpecWorker /\ WorkerFairness

C2_NoDaemonErrorRaised ==
    \A c \in CLIs : clastOp[c] # "daemonError"

\* C3: no request (the ping included) is ever answered for a CLI process by a daemon
\* that was started from a record different from the one the CLI process holds.
C3_NoRequestToOtherRecord == ~misrouted

\* C4: two server records that differ in the value of any field, nested entries of
\* env, headers, args and oauth included, have different config hashes.
C4_DifferentRecordsDifferentHashes ==
    Differ(hrecA, hrecB) => hashA # hashB

\* C5: once spawnDaemon timed out and getConnection returned the direct session,
\* neither the pid file nor the socket of the daemon that was spawned exists.
C5_TimedOutDaemonLeavesNoFiles ==
    \A c \in CLIs :
        (ccause[c] = "spawnTimeout" /\ cpc[c] = "connDirect")
            => (pidFile.pid # cspawn[c] /\ sockFile # cspawn[c])

\* C6: the pid file names the process bound to the socket whenever both exist, and
\* at most one daemon of the server is serving.
C6_FilesOwnedByOneDaemon ==
    /\ (pidFile # NoPidFile /\ sockFile # 0) => pidFile.pid = sockFile
    /\ Cardinality({d \in Pids : dpc[d] = "serving"}) <= 1

Processed(i) ==
    LET v == fetchServerTools(pitems[i], pout[pitems[i]])
    IN  [name |-> v.name, tools |-> v.tools, instructions |-> v.instructions,
         error |-> v.error]

InFlight == {w \in Workers : wpc[w] = "await"}

\* C13: the list processWithConcurrency returns holds at every position i the
\* result of processing input item i, in whatever order the fetches completed.
C13_ResultsInInputOrder ==
    ppc = "returned" =>
        /\ Len(results) = Len(pitems)
        /\ \A i \in 1..Len(pitems) : results[i] = Processed(i)

\* C13 witness: three servers listed as s3, s1, s2 were fetched two at a time, the
\* second item's fetch settled before the first's, and the list was returned
C13_Witness ==
    /\ ppc = "returned"
    /\ pitems = <<"s3", "s1", "s2">>
    /\ penv = 2
    /\ pdone = <<1, 0, 2>>
    /\ results[1].name = "s3"

\* C14: a server that fails to connect or to list never makes the engine raise and
\* never keeps the others from being fetched: the result has one position a server,
\* the failing server's carries its error and every other its tool list.
C14_FailuresIsolated ==
    /\ ppc # "thrown"
    /\ ppc = "returned" =>
        /\ Len(results) = Len(pitems)
        /\ \A i \in 1..Len(pitems) :
            IF pout[pitems[i]] = "ok"
            THEN results[i].tools = ToolsOf(pitems[i]) /\ results[i].error = ""
            ELSE results[i].error = pout[pitems[i]] /\ results[i].tools = <<>>

\* C14 witness: of three servers the second failed in listTools; its position
\* carries the error and the other two carry their tool lists
C14_Witness ==
    /\ ppc = "returned"
    /\ pitems = <<"s1", "s2", "s3">>
    /\ pout = [s \in ServerNames |-> IF s = "s2" THEN "listToolsFails" ELSE "ok"]
    /\ results[2].error = "listToolsFails"
    /\ results[1].tools = ToolsOf("s1")
    /\ results[3].tools = ToolsOf("s3")

\* C15: at any time of a fan-out at most C fetches are in flight, C the configured
\* pool size (MCP_CONCURRENCY, default 5).
C15_AtMostCInFlight == Cardinality(InFlight) <= getConcurrencyLimit(penv)

\* C15 witness: with MCP_CONCURRENCY=2 and three servers two fetches are in flight
\* and the third has not been started
C15_Witness ==
    /\ ppc = "running"
    /\ penv = 2
    /\ Len(pitems) = 3
    /\ Cardinality(InFlight) = 2
    /\ currentIndex = 2

\* C16: when processWithConcurrency returns no fetch is in flight and every
\* result slot has been written.
C16_ReturnsAfterDrain ==
    ppc = "returned" =>
        /\ InFlight = {}
        /\ \A i \in 1..Len(pitems) : results[i] # Empty

\* C16 witness: a single worker (MCP_CONCURRENCY=1) drained three servers one
\* after the other before the call returned
C16_Witness ==
    /\ ppc = "returned"
    /\ pworkers = 1
    /\ Len(pitems) = 3
    /\ pdone = <<0, 1, 2>>

(***************************************************************************)
(* Claims about the daemon worker, checked under SpecDaemon (C17) and       *)
(* SpecWorker, SpecWorkerFair                                              *)
(***************************************************************************)
\* C17: DAEMON_READY is printed after the pid file, the session and the socket;
\* hence when a spawner reads DAEMON_READY from a daemon that is serving, the
\* socket path leads to that daemon, which accepts the connection and answers
\* the ping.
C17_ReadyMeansReachable ==
    [][\A c \in CLIs :
          (cpc[c] = "waitReady" /\ cpc'[c] = "checkSock" /\ Serving(cspawn[c]))
              => sockFile = cspawn[c]]_vars

\* C18: every request the daemon receives leaves the idle timer armed with the
\* full idle timeout, and the idle timer never expires less than one idle
\* timeout after the last request (or after the start of listening).
C18_RequestRearmsIdleTimer ==
    [][/\ kreqs' = kreqs + 1 => ktimer' = getDaemonTimeoutMs(kenv)
       /\ (kidled' /\ ~kidled) => ksince >= getDaemonTimeoutMs(kenv)]_vars

\* a daemon with a 2 s timeout that got two requests, the second 1 s after the
\* first, and then ran idle for the full 2 s
C18_Witness ==
    /\ kidled
    /\ kenv = 2
    /\ kreqs = MaxRequests
    /\ ksince = 2 * TickMs
    /\ ~ksignalled

\* the worker has exited with code 0, its session not open, neither file left
ExitedClean ==
    /\ kpc = "exited"
    /\ kexit = 0
    /\ ksession # "open"
    /\ ~ksock
    /\ ~kpid

C20_StartupFailureExitsOne ==
    kfailed # "none" =>
        /\ ~kready
        /\ kpc = "exited" => (kexit = 1 /\ ~ksock /\ ~kpid)

\* C21: at most one listTools or callTool call of the daemon is in flight on
\* its MCP session at any time.
C21_McpCallsSerialised == Cardinality(kinflight) <= 1

\* C22: a close request is answered at once with success and the request's
\* id, the step that answers it starts no cleanup, and the daemon then shuts
\* down as on idle expiry: session closed, both files removed, exit code 0.
C22_CloseAnsweredThenShutdown ==
    /\ [][(kreqs' = kreqs + 1 /\ ktype' = "close") =>
              /\ kresp' = [id |-> kreqs', success |-> TRUE, data |-> "closing"]
              /\ kclosing'
              /\ kpending' = kpending
              /\ kpc' = "running"
              /\ ksession' = "open"]_vars
    /\ (ktype = "close") ~> ExitedClean

\* a daemon whose second request was a close, answered under id 2, and that
\* exited through the close timer alone
C22_Witness ==
    /\ ExitedClean
    /\ ktype = "close"
    /\ kresp = [id |-> 2, success |-> TRUE, data |-> "closing"]
    /\ ksession = "closed"
    /\ ~kidled
    /\ ~ksignalled

(***************************************************************************)
(* Claim about the start-up sweep, checked under SpecOrphan                *)
(***************************************************************************)
\* C23: after cleanupOrphanedDaemons no server is left with a pid file that
\* records a pid which is not running, and no such server kept its socket file.
C23_NoDeadDescriptorLeft ==
    opc = "done" =>
        \A n \in SweepNames :
            (opids[n] \in SweepPids => opids[n] \in oalive)
            /\ (n \in osocks =>
                   ~(readPidFile(opids, n) # NoFile
                        /\ readPidFile(opids, n) \notin oalive))

(***************************************************************************)
(* Claims about the OAuth flow of connectToServer, checked under SpecAuth  *)
(***************************************************************************)
\* C24: once the callback has reported an error or the callback wait has
\* timed out, the connect operation binds no further listener, opens no
\* further browser and saves no tokens.
C24_CallbackFailureIsTerminal ==
    [][acbfailed =>
          /\ alisteners' = alisteners
          /\ abrowsers' = abrowsers
          /\ atokens' = atokens]_vars

\* C25: a connect without interactive auth to a server that demands
\* authorization ends with an AuthRequiredError whose message carries the
\* authorization URL, no browser opened and waitForCallback never called.
C25_AuthRequiredCarriesUrl ==
    (apc = "done" /\ ademanded /\ ~aopt) =>
        /\ aresult = "raised"
        /\ aerror.name = "AuthRequiredError"
        /\ Includes(aerror.msg, AuthorizationUrl)
        /\ abrowsers = 0
        /\ ~awaited

(***************************************************************************)
(* Claims about the OAuth provider, checked under SpecClient,              *)
(* SpecListener and SpecListenerFair                                         *)
(***************************************************************************)
\* C26: a persisted client record that clientInformation returns lists the
\* provider's current redirectUrl among its redirect_uris; a record that does
\* not is deleted and reported as absent.
C26_ReturnedRecordListsRedirectUrl ==
    (cipc = "done" /\ ciconfig.clientId = ""
        /\ redirectUrl(ciconfig, ciactual) # <<>>) =>
        /\ (cireturned # NoRecord /\ cireturned.has_uris) =>
               redirectUrl(ciconfig, ciactual) \in cireturned.redirect_uris
        /\ cireturned = cistored

(***************************************************************************)
(* Claims about the retry executor, checked under SpecRetry                *)
(***************************************************************************)
\* The environment's maximum M (MCP_MAX_RETRIES, default 3)
EnvMaxRetries == IF renv.retries >= 0 THEN renv.retries ELSE DEFAULT_MAX_RETRIES

\* C7 (as claimed): with maximum M (M >= 1), withRetry invokes the operation at most
\* M times in total.
C7_AtMostMCalls == (EnvMaxRetries >= 1) => (calls <= EnvMaxRetries)

\* C7 (amended): M counts the retries, so withRetry invokes the operation at most
\* M + 1 times: the first attempt and at most M retries.
C7_AtMostMPlusOneCalls == calls <= EnvMaxRetries + 1

\* C7 witness: under the default M = 3 every attempt failed as transient and the
\* operation was invoked four times before the error was raised.
C7_Witness ==
    /\ rpc = "raised"
    /\ renv.retries = -1
    /\ isTransientError(lastError)
    /\ calls = DEFAULT_MAX_RETRIES + 1

\* The three conditions of the claim, read in the state an attempt has just failed in
RetryConds ==
    /\ attempt < rcfg.maxRetries
    /\ lastError.code \in TransientCodes \/ lastError.msg \in TransientMessages
    /\ rcfg.totalBudgetMs - elapsed > 1000

\* After a failed attempt the executor backs off for a retry exactly when the three
\* conditions hold, and otherwise raises at once
DecidesByConds ==
    (rpc = "running" /\ rpc' \in {"sleeping", "raised"})
        => ((rpc' = "sleeping") <=> RetryConds')

\* Once the error is raised the operation is not invoked again
RaisedIsFinal == (rpc = "raised") => (calls' = calls \/ rpc' = "idle")

\* C8 (as claimed): after a failed attempt a further attempt is made if and only if
\* attempts remain, the error is transient and more than 1 s of budget remains;
\* otherwise the error is raised at once and the operation is not invoked again.
C8_RetryIffConds ==
    [][/\ DecidesByConds
       /\ (rpc = "top" /\ attempt > 0) => (rpc' = "running")
       /\ RaisedIsFinal]_vars

\* C8 (amended): the executor backs off for a retry if and only if the three
\* conditions hold (the budget being the full timeout); the further attempt is then
\* made unless the whole budget has elapsed when the backoff sleep ends, in which
\* case the error is raised without another invocation; in every other case the
\* error is raised at once.
C8_RetryIffCondsAndBudgetLeft ==
    [][/\ DecidesByConds
       /\ (rpc = "top" /\ attempt > 0)
            => ((rpc' = "running") <=> (elapsed < rcfg.totalBudgetMs))
       /\ (rpc = "top" /\ rpc' = "raised") => (calls' = calls)
       /\ RaisedIsFinal]_vars

\* C8 witness: a second attempt is running after a transient failure of the first
C8_Witness ==
    /\ rpc = "running"
    /\ attempt = 1
    /\ calls = 2
    /\ isTransientError(lastError)

\* The hard budget T of the claim: the operation-wide deadline minus the 5 s reserve
HardBudgetT == Max(0, getTimeoutMs(renv) - RESERVE_MS)

\* C9: no attempt and no backoff sleep starts after the hard budget T has elapsed
\* (an attempt in flight or a sleep in progress started at the current elapsed time).
\* Stated for deadlines above the reserve (T > 0) and timers that fire on time.
C9_NoStartAfterHardBudget ==
    (rpc \in {"running", "sleeping"} /\ HardBudgetT > 0 /\ ~timerLate)
        => (elapsed <= HardBudgetT)

\* C10: a callTool completes or fails within the global request deadline, all retry
\* attempts and backoff delays counted.  Stated for timers that fire on time.
C10_CallToolWithinDeadline ==
    (rop = "callTool" /\ rpc \in {"returned", "raised"} /\ ~timerLate)
        => (elapsed <= getTimeoutMs(renv))

\* C27: at most one callback listener is open at a time, whatever calls to
\* preStartCallbackServer, redirectToAuthorization and waitForCallback are
\* made, and a waitForCallback that waits on a listener waits on the one the
\* provider holds.
C27_OneListenerPerFlow ==
    /\ \A i, j \in ListenerIds : lsrv[i].open /\ lsrv[j].open => i = j
    /\ lwait = "onPromise" /\ lstate # 0 => lwaitOn = lstate

\* C28: a request on a path other than /callback is answered 404 and leaves
\* the pending callback pending, whatever its query.
C28_OtherPathsAre404 ==
    lresp.listener # 0 /\ lresp.path # "/callback"
        => lresp.status = 404 /\ lresp.settle = "none"

\* C29: a listener closed by a code, an error or the timeout has its timer
\* cancelled, a timeout rejects the pending callback, a settled callback
\* means a closed listener, and every open listener is eventually closed.
C29_ListenerEventuallyClosed ==
    /\ [](\A i \in ListenerIds :
            /\ lsrv[i].closedBy \in {"code", "error", "timeout"}
                 => ~lsrv[i].open /\ ~lsrv[i].timer
            /\ lsrv[i].closedBy = "timeout" => lsrv[i].promise = "rejected"
            /\ lsrv[i].promise \in {"resolved", "rejected"} => ~lsrv[i].open)
    /\ \A i \in ListenerIds : lsrv[i].open ~> ~lsrv[i].open

C29_Witness ==
    /\ \E i \in ListenerIds :
        lsrv[i].closedBy = "timeout" /\ lsrv[i].promise = "rejected"
    /\ \E i \in ListenerIds :
        lsrv[i].closedBy = "code" /\ lsrv[i].promise = "resolved"

\* the fallback list as the specification words it: callbackPorts if set,
\* otherwise callbackPort (if set) followed by the default order, no port twice
ClaimedPorts(config) ==
    IF config.callbackPorts # <<>> THEN config.callbackPorts
    ELSE AppendNew(IF config.callbackPort # Absent
                   THEN <<config.callbackPort>> ELSE <<>>,
                   DEFAULT_PORT_FALLBACK_ORDER)

AllowedByRule(t, r) ==
    /\ ~\E p \in r.disabledTools : matchesPattern(t, p)
    /\ \/ r.allowedTools = {}
       \/ \E p \in r.allowedTools : matchesPattern(t, p)

\* C31: isToolAllowed(t, r) is true exactly when no disabledTools pattern
\* matches t and allowedTools is empty or has a pattern matching t, and the
\* list a connection handle returns is the server's list cut down to exactly
\* those tools, in order.
C31_FilterKeepsExactlyAllowed ==
    tvia \in {"daemon", "direct"} =>
        /\ \A t \in ToolNames : isToolAllowed(t, trec) <=> AllowedByRule(t, trec)
        /\ tlist = SelectSeq(ttools, LAMBDA t : AllowedByRule(t, trec))

C31_Witness ==
    /\ tvia \in {"daemon", "direct"}
    /\ trec.allowedTools # {}
    /\ trec.disabledTools # {}
    /\ Len(tlist) = 1
    /\ Len(ttools) = 2
    /\ \E i \in 1..2 :
        /\ \E p \in trec.allowedTools : matchesPattern(ttools[i], p)
        /\ \E p \in trec.disabledTools : matchesPattern(ttools[i], p)

\* C32: every tool list a command obtains for a server holds only tools that
\* isToolAllowed accepts for the server's record.
C32_EveryListIsFiltered ==
    tpc = "listed" =>
        \A i \in 1..Len(tlist) : isToolAllowed(tlist[i], trec)

(***************************************************************************)
(* Claims about config loading, checked under SpecEnv                       *)
(***************************************************************************)
\* the unset variables referenced anywhere in the config
UnsetReferenced ==
    {v \in EnvNames \ eenv :
        \E i \in 1..Len(etree) : \E j \in 1..Len(etree[i]) : etree[i][j] = v}

\* C33: in strict mode, loading a config that references unset variables
\* fails with MISSING_ENV_VAR and the error lists every unset variable the
\* config references.
C33_StrictLoadListsAllUnset ==
    epc = "loaded" /\ estrict /\ UnsetReferenced # {} =>
        /\ eresult.kind = "MISSING_ENV_VAR"
        /\ {eresult.listed[i] : i \in 1..Len(eresult.listed)} = UnsetReferenced

(***************************************************************************)
(* Claims about exit codes, checked under SpecExit                          *)
(***************************************************************************)
\* the connection failed because authorization is required or because the
\* OAuth flow failed
AuthenticationFailure ==
    /\ aresult = "raised"
    /\ \/ aerror.name = "AuthRequiredError"
       \/ Includes(aerror.msg, "[OAUTH_FLOW_ERROR]:")

\* C34: a command that fails because the server requires authentication or
\* because the OAuth flow failed exits with code 4, not with the code 3 of
\* an unreachable server.
C34_AuthFailureExitsFour ==
    xexit # NoExit /\ AuthenticationFailure => xexit = AUTH_ERROR

(***************************************************************************)
(* Claims about the daemon's files and requests, checked under SpecDaemon   *)
(* and SpecWorker                                                           *)
(***************************************************************************)
\* a daemon that has written its files and has not been told to stop
Live(d) == dpc[d] \in {"connecting", "serving"}

\* C35: while a daemon is live, its descriptor file and its socket file are
\* not removed or overwritten by a step of any other process.
C35_LiveDaemonKeepsItsFiles ==
    [][\A d \in Pids :
        Live(d) /\ Live(d)' =>
            /\ pidFile.pid = d => pidFile' = pidFile
            /\ sockFile = d => sockFile' = sockFile]_vars

\* C36: the idle shutdown of a daemon begins only when no request it has
\* accepted is still being served.
C36_NoIdleShutdownWhileServing ==
    [][~kidled /\ kidled' => kinflight = {}]_vars

(***************************************************************************)
(* Claims about retried tool calls, checked under SpecRetry                 *)
(***************************************************************************)
\* an attempt that failed with this error may have delivered its request: the
\* connection was reset while reading the answer, or no answer came in time
MayHaveReachedServer(err) ==
    \/ err.code \in {"ECONNRESET", "ETIMEDOUT", "EPIPE"}
    \/ err.msg \in {"connection reset", "timeout"}

\* C38: within one callTool the request is not sent again after an attempt
\* whose request may already have reached the server.
C38_CallToolSentAtMostOnce ==
    [][rop = "callTool" /\ calls' = calls + 1
          => ~MayHaveReachedServer(lastError)]_vars

(***************************************************************************)
(* Claims about authorization through a spawned daemon, checked under       *)
(* SpecDaemon for a server that requires authorization                      *)
(***************************************************************************)
\* runDaemon of d awaits connectToServer: its authorization flow is running
DaemonAuthorizing(d) == dpc[d] = "connecting"

\* getConnection of c awaits the direct connectToServer: its authorization
\* flow is running
CliAuthorizing(c) == cpc[c] = "direct"

\* C39: the daemon a CLI process spawned and the direct fallback of that
\* process never run an authorization flow at the same time.
C39_OneAuthorizationFlow ==
    \A c \in CLIs :
        ~(CliAuthorizing(c) /\ cspawn[c] # 0 /\ DaemonAuthorizing(cspawn[c]))



(***************************************************************************)
(* Claims about sendRequest                                                *)
(***************************************************************************)

\* both messages of the exchange reach their reader in one read
Unsplit ==
    /\ sreqfirst = Len(Request(stype))
    /\ sfirst = Len(Frame(answerOf(stype)))

\* C37: a callTool forwarded through the daemon whose tool takes longer than
\* the 5 s daemon request timeout and less than the global request deadline
\* delivers the tool's result: once the daemon has answered, the caller's
\* promise is resolved with the result.
C37_SlowCallToolDelivered ==
    (/\ stype = "callTool"
     /\ Unsplit
     /\ 1000 * sdur > DAEMON_REQUEST_TIMEOUT_MS
     /\ sdur < DEFAULT_TIMEOUT_SECONDS
     /\ swritten)
    => spromise = [settle |-> "resolved", value |-> "result"]

\* C40: a request or response that arrives split across reads is processed
\* as its complete frame: whenever the answer has been read before the
\* timer settled the promise, the caller has the answer to its request.
C40_FramesAreReassembled ==
    (swritten /\ spromise.value # "Daemon request timeout")
    => spromise = [settle |-> "resolved", value |-> answerOf(stype)]

============================================================================
